---- MODULE Spec2Model ----
(***************************************************************************)
(* Helix bridge of ZenottaJS: the trade state machine of HelixBridge       *)
(* (protobridge) and HelixBridgeBTC (bitcoin bridge).  One bridge instance *)
(* is modelled: its progress map, cached mempool key and stored stage-2    *)
(* transaction, together with the values it posted to the intercom         *)
(* (mailbox) server.  What the bridge reads from the intercom and what the *)
(* transports answer are inputs of each call.                              *)
(***************************************************************************)
EXTENDS Integers, Sequences, FiniteSets, TLC

(* ------------------------------ bounds -------------------------------- *)
\* the clock advances in ticks of TickHours hours, up to MaxTicks ticks
MaxTicks == 2
TickHours == 12
\* number of uuidv4() nonces the run may draw
MaxNonce == 2
\* the builders' inputs: satoshis per byte up to MaxRate, lists of up to
\* MaxOutputs outputs, up to MaxUtxos unspent outputs, lock times up to
\* MaxDays days
MaxRate == 2
MaxOutputs == 2
MaxUtxos == 2
MaxDays == 2
MaxSenders == 3
MaxAmount == 2
MaxBalanceOutputs == 3

(* ------------------------- program constants -------------------------- *)
\* constructor default of HelixBridge, in hours
freshTestResponseTimeout == 12

\* ITradeProgress.status values
FreshTestSent == 0
FreshTestSigned == 1
BothSigned == 2
Stage1Sent == 3
Stage1Verified == 4
Stage2PartialSent == 5
Stage3Sent == 6
EscrowSigAwaited == 7
Complete == 8
\* status: null (failure to complete)
Null == 0 - 1

\* reasonForFailure: null
NoReason == "null"

(* ------------------------------ data ---------------------------------- *)
\* trade partners' addresses; a fresh test names the partner's address as
\* the public key that has to sign
Counterparties == {"B"}
\* public keys a fresh test in the intercom may name: a partner's, or the
\* key of whoever else wrote the slot
PublicKeys == Counterparties \cup {"E"}
\* the address of the Zenotta mempool (escrow signer)
ZenottasAddress == "Z"

\* IKeypair values the caller may pass.  publicKey is a Uint8Array object:
\* ref is the object's identity, bytes its content.
\* K1's address is the hex encoding of its public key, K2's is not.
K1 == [address |-> "o1", publicKey |-> [ref |-> "K1.publicKey", bytes |-> "pk1"], secretKey |-> "sk1"]
K2 == [address |-> "o1", publicKey |-> [ref |-> "K2.publicKey", bytes |-> "pk2"], secretKey |-> "sk2"]
Keypairs == {K1, K2}
OurAddresses == {k.address : k \in Keypairs}

\* secret key held by the owner of a public key (bytes)
SecretOf(pk) ==
    CASE pk = "B" -> "skB"
      [] pk = "E" -> "skE"
      [] pk = "pk1" -> "sk1"
      [] pk = "pk2" -> "sk2"
      [] OTHER -> "sk?"

\* a uuid string "hhhhhhhh-tttt-...": head is the part before the first
\* dash, tail the rest
Uuid(head, tail) == <<head, tail>>
UuidTails == {0, 1}
Messages == {Uuid(h, t) : h \in 1..MaxNonce, t \in UuidTails}

\* Buffer.from(message, 'hex') of a uuid: decoding stops at the first
\* character that is not a hex digit, so only the head is decoded
HexBytesOfUuid(message) == message[1]

\* Buffer.from(s, 'hex') of an address or a key made of hex digits
HexBytes(s) ==
    CASE s = "o1" -> "pk1"
      [] OTHER -> s

\* Uint8Array.from(..) allocates a new object
Uint8ArrayFrom(bytes) == [ref |-> "new", bytes |-> bytes]

\* x != y on two objects compares their identities, not their contents
LooseNotEqual(x, y) == x.ref # y.ref

\* createSignature(secretKey, bytes) (nacl.sign.detached)
createSignature(secretKey, bytes) == <<secretKey, bytes>>

\* no signature: null
NoSignature == <<>>


\* HelixBridge.sign
sign(secretKey, message) == createSignature(secretKey, HexBytesOfUuid(message))

\* verify that accepts the signature of any key over the message
verify_AnySigner(signature, message, publicKey) ==
    /\ Len(signature) = 2
    /\ signature[2] = HexBytesOfUuid(message)

\* HelixBridge.verify (nacl.sign.detached.verify over the decoded buffers)
verify(signature, message, publicKey) ==
    signature = createSignature(SecretOf(HexBytes(publicKey)), HexBytesOfUuid(message))

\* Date.getTime(): milliseconds of a clock value
getTime(t) == t * TickHours * 60 * 60 * 1000

\* a conversion to days instead: ms / 1000 / 60 / 60 / 24
formatMillisecondsToDays(ms) == [num |-> ms, den |-> 1000 * 60 * 60 * 24]

\* HelixBridge.formatMillisecondsToHours: ms / 1000 / 60 / 60, kept as a
\* fraction
formatMillisecondsToHours(ms) == [num |-> ms, den |-> 1000 * 60 * 60]

\* fraction > integer
GreaterThan(frac, n) == frac.num > n * frac.den

(* ----------------------- intercom (mailbox) data ----------------------- *)
\* IFreshTest entries a slot may hold
Signatures == {createSignature(SecretOf(pk), h) : pk \in PublicKeys, h \in 1..MaxNonce}
FreshTests == [publicKey : PublicKeys, message : Messages,
               signature : Signatures \cup {NoSignature}]

\* a script is the sequence of its elements; NoScript is a missing script
NoScript == <<>>
TxGood == [inputs |-> << [script |-> <<"sigB">>] >>,
           outputs |-> << [script |-> <<"o1", "Z", "B">>, satoshis |-> 2] >>]
TxChange == [inputs |-> << [script |-> <<"sigC">>] >>,
             outputs |-> << [script |-> <<"o1", "Z", "B">>, satoshis |-> 2],
                            [script |-> <<"B">>, satoshis |-> 1] >>]
TxNoScript == [inputs |-> << [script |-> NoScript] >>,
               outputs |-> << [script |-> <<"o1", "Z", "B">>, satoshis |-> 2] >>]
TxNoInputs == [inputs |-> << >>,
               outputs |-> << [script |-> <<"o1", "Z", "B">>, satoshis |-> 2] >>]
Transactions == {TxGood, TxChange, TxNoScript, TxNoInputs}
\* transactions the caller may hand to a sending step
SentTransactions == {TxGood}

\* IBtcExpectations the caller may declare
Expectations == {[ourAddress |-> "o1", zenottasAddress |-> "Z", amount |-> 2]}
\* the signature fragment the caller expects in a stage-2 partial: TxGood
\* carries it, TxChange carries another
OurSigs == {"sigB"}

\* response.data of an intercom get: the entries of our slot, by sender
EmptyData == [x \in {} |-> x]

\* what the slot may hold when each step reads it: the messages of the
\* step, and one message of another stage
UnsignedTests == {f \in FreshTests : f.signature = NoSignature}
AStrayTest == [publicKey |-> "B", message |-> Uuid(1, 0), signature |-> NoSignature]
EntriesToSign == UnsignedTests \cup {TxGood}
EntriesOfResponse == FreshTests \cup {TxGood}
\* a few of them: an unsigned test, a test signed by the partner, one signed
\* by someone else under the partner's name, and one that names and is
\* signed by someone else's key
SignedBy(name, signer, head) ==
    [publicKey |-> name, message |-> Uuid(head, 0),
     signature |-> createSignature(SecretOf(signer), head)]
SomeEntriesToSign == {AStrayTest, TxGood}
SomeEntriesOfResponse == {AStrayTest, SignedBy("B", "B", 1), SignedBy("B", "E", 1),
                          SignedBy("E", "E", 1), TxGood}
EntriesOfStage == Transactions \cup {AStrayTest}

\* no keypair passed, no intercom get made
NoKeypair == [address |-> "", publicKey |-> [ref |-> "", bytes |-> ""], secretKey |-> ""]
NotFetched == [error |-> FALSE, data |-> EmptyData, fetched |-> FALSE]

\* outcome of getIntercomData: an Error, or the data with no entry of a or
\* with one of entries
Fetches(a, entries) ==
    {[error |-> TRUE, data |-> EmptyData, fetched |-> TRUE],
     [error |-> FALSE, data |-> EmptyData, fetched |-> TRUE]}
    \cup {[error |-> FALSE, data |-> [x \in {a} |-> e], fetched |-> TRUE] : e \in entries}

\* outcome of an axios post to the intercom: the request is stored and
\* answered, rejected, or stored with the answer lost to the client
PostOutcomes == {"ok", "rejected", "reply_lost"}
Delivered(post) == post \in {"ok", "reply_lost"}

\* error messages
NetworkError == "Network Error"
TypeError == "TypeError"

\* the text of a script element, as the pieces it is written with: "o1ff" is
\* a data element whose text begins with the text of the address "o1"
TextOf(element) ==
    CASE element = "o1ff" -> <<"o1", "ff">>
      [] OTHER -> <<element>>

\* script.toString(): the texts of the elements, separated by blanks
RECURSIVE ScriptToString(_)
ScriptToString(script) ==
    IF script = << >> THEN << >>
    ELSE IF Len(script) = 1 THEN TextOf(script[1])
    ELSE TextOf(Head(script)) \o <<" ">> \o ScriptToString(Tail(script))

\* String.indexOf(needle) over a text: the first position where the needle's
\* text occurs, -1 if it occurs nowhere
IndexOfText(text, needle) ==
    LET Occurs(i) == SubSeq(text, i, i + Len(needle) - 1) = needle
        positions == {i \in 1..(Len(text) - Len(needle) + 1) : Occurs(i)}
    IN IF positions = {} THEN 0 - 1
       ELSE (CHOOSE i \in positions : \A j \in positions : i <= j) - 1

\* script.toString().indexOf(needle)
IndexOf(s, needle) == IndexOfText(ScriptToString(s), TextOf(needle))

(* ------------------------------ state ---------------------------------- *)
VARIABLES
    progress,    \* HelixBridge.progress: address -> ITradeProgress
    mempoolKey,  \* HelixBridge.mempoolKey
    txStage2,    \* HelixBridgeBTC.txStage2
    mailbox,     \* what this bridge posted: <<slot, field>> -> value
    now,         \* the clock, in ticks
    nonce,       \* number of uuids drawn so far
    last,        \* the last call and what it returned
    pending      \* calls awaiting a promise: address -> the call's closure

vars == <<progress, mempoolKey, txStage2, mailbox, now, nonce, last, pending>>

NoKey == "null"
NoTransaction == [inputs |-> << >>, outputs |-> << >>, none |-> TRUE]

Init ==
    /\ progress = [x \in {} |-> x]
    /\ mempoolKey = NoKey
    /\ txStage2 = NoTransaction
    /\ mailbox = [x \in {} |-> x]
    /\ now = 0
    /\ nonce = 0
    /\ last = [op |-> "constructor", addr |-> "", kp |-> NoKeypair, read |-> NotFetched,
               result |-> "none", reason |-> NoReason]
    /\ pending = [x \in {} |-> x]

(* ----------------------------- helpers --------------------------------- *)
\* the value a call hands back: result is "success" (an IClientResponse with
\* status 'success'), "error" (an Error value or an error envelope), "value"
\* (a raw value) or "throw" (the returned promise rejects)
\* with the call's inputs: the keypair passed, what the intercom answered,
\* and the hours since the record's lastEvent
CallOf(kp, fetch) == [kp |-> kp, read |-> fetch]
NoInputs == CallOf(NoKeypair, NotFetched)
Return(op, a, in, result, reason) ==
    last' = [op |-> op, addr |-> a, kp |-> in.kp, read |-> in.read,
             result |-> result, reason |-> reason]

HasRecord(a) == a \in DOMAIN progress

\* the caller holds no result: the bridge was just constructed, time has
\* passed, or the caller has taken what its last call returned
Idle == last.result = "none"

\* the caller takes what the call returned, before it makes its next call;
\* the bridge is not touched
TakeResult ==
    /\ ~Idle
    /\ last' = [op |-> "none", addr |-> "", kp |-> NoKeypair, read |-> NotFetched,
                result |-> "none", reason |-> NoReason]
    /\ UNCHANGED <<progress, mempoolKey, txStage2, mailbox, now, nonce, pending>>

\* an assignment that lands on every record of the map
Assigned_EveryRecord(a, status) ==
    [k \in DOMAIN progress |-> [progress[k] EXCEPT !.status = status, !.lastEvent = now]]

\* Object.assign(this.progress[a], fields): the record must exist
Assigned(a, status) ==
    [progress EXCEPT ![a] = [@ EXCEPT !.status = status, !.lastEvent = now]]

\* a failure handler that drops the record instead of marking it
markedErrorInProgress_Deleting(a, reason) ==
    [k \in DOMAIN progress \ {a} |-> progress[k]]

\* HelixBridge.markedErrorInProgress: the new progress map
markedErrorInProgress(a, reason) ==
    [progress EXCEPT ![a] = [@ EXCEPT !.status = Null, !.lastEvent = now,
                                      !.reasonForFailure = reason]]

\* return this.markedErrorInProgress(a, reason): Object.assign throws a
\* TypeError when this.progress[a] is undefined
ReturnMarkedError(op, a, in, reason) ==
    IF HasRecord(a)
    THEN /\ progress' = markedErrorInProgress(a, reason)
         /\ Return(op, a, in, "error", reason)
    ELSE /\ progress' = progress
         /\ Return(op, a, in, "throw", TypeError)

\* the intercom stores a posted value in the slot of target, under field
Posted(target, field, value) ==
    [k \in DOMAIN mailbox \cup {<<target, field>>} |->
        IF k = <<target, field>> THEN value ELSE mailbox[k]]

\* a test that takes every field the entry has as set, an empty signature too
Truthy_Present(entry, field) == field \in DOMAIN entry

\* if (entry.field): the field is there and it is not empty
Truthy(entry, field) == field \in DOMAIN entry /\ entry[field] # <<>>

(* ---------------------------- operations ------------------------------- *)
\* a generator that returns the same string every time
uuidv4_Constant == Uuid(1, 0)

\* uuidv4(): a string no earlier call returned
uuidv4 == Uuid(nonce + 1, 0)

\* the valuePayload of sendFreshTest
FreshTestPayload(a) == [publicKey |-> a, message |-> uuidv4, signature |-> NoSignature]

\* HelixBridge.sendFreshTest from its axios.post on: the post of valuePayload
\* and its .then / .catch
sendFreshTestPosted(a, kp, valuePayload, post) ==
    /\ mailbox' = IF Delivered(post) THEN Posted(a, kp.address, valuePayload)
                  ELSE mailbox
    /\ IF post = "ok"
       THEN /\ progress' = [k \in DOMAIN progress \cup {a} |->
                              IF k = a
                              THEN [status |-> FreshTestSent, lastEvent |-> now,
                                    ourAddress |-> kp.address,
                                    reasonForFailure |-> NoReason]
                              ELSE progress[k]]
            /\ Return("sendFreshTest", a, CallOf(kp, NotFetched), "success", "Fresh test sent")
       ELSE /\ progress' = progress
            /\ Return("sendFreshTest", a, CallOf(kp, NotFetched), "error", NetworkError)
    /\ UNCHANGED <<mempoolKey, txStage2, now>>

\* HelixBridge.sendFreshTest
sendFreshTest(a, kp, post) ==
    /\ nonce < MaxNonce
    /\ nonce' = nonce + 1
    /\ sendFreshTestPosted(a, kp, FreshTestPayload(a), post)

\* HelixBridge.signFreshTest
signFreshTest(a, kp, fetch, post) ==
    /\ UNCHANGED <<mempoolKey, txStage2, now, nonce>>
    /\ IF ~HasRecord(a)
       THEN \* this.progress[theirAddress].ourAddress of undefined
            /\ Return("signFreshTest", a, CallOf(kp, NotFetched), "throw", TypeError)
            /\ UNCHANGED <<progress, mailbox>>
       ELSE LET ourAddress == progress[a].ourAddress IN
            IF LooseNotEqual(Uint8ArrayFrom(HexBytes(ourAddress)), kp.publicKey)
            THEN /\ ReturnMarkedError("signFreshTest", a, CallOf(kp, NotFetched),
                        "Our address does not match our public key")
                 /\ UNCHANGED mailbox
            ELSE IF fetch.error
            THEN /\ Return("signFreshTest", a, CallOf(kp, fetch), "error", NetworkError)
                 /\ UNCHANGED <<progress, mailbox>>
            ELSE IF a \notin DOMAIN fetch.data
            THEN /\ Return("signFreshTest", a, CallOf(kp, fetch), "error",
                           "Data not found for trade partner!")
                 /\ UNCHANGED <<progress, mailbox>>
            ELSE LET freshTest == fetch.data[a] IN
                 IF "message" \notin DOMAIN freshTest
                 THEN \* Buffer.from(undefined, 'hex')
                      /\ Return("signFreshTest", a, CallOf(kp, fetch), "throw", TypeError)
                      /\ UNCHANGED <<progress, mailbox>>
                 ELSE LET signed == [freshTest EXCEPT
                                        !.signature = sign(kp.secretKey, freshTest.message)]
                      IN /\ mailbox' = IF Delivered(post)
                                       THEN Posted(a, ourAddress, signed)
                                       ELSE mailbox
                         /\ IF post = "ok"
                            THEN /\ progress' = Assigned(a, FreshTestSigned)
                                 /\ Return("signFreshTest", a, CallOf(kp, fetch), "success",
                                           "Fresh test sent")
                            ELSE ReturnMarkedError("signFreshTest", a, CallOf(kp, fetch), NetworkError)

\* HelixBridge.getFreshTestResponse
getFreshTestResponse(a, fetch) ==
    /\ UNCHANGED <<mempoolKey, txStage2, mailbox, now, nonce>>
    /\ IF fetch.error
       THEN /\ Return("getFreshTestResponse", a, CallOf(NoKeypair, fetch), "error", NetworkError)
            /\ UNCHANGED progress
       ELSE IF a \notin DOMAIN fetch.data
       THEN /\ Return("getFreshTestResponse", a, CallOf(NoKeypair, fetch), "error",
                      "Data not found for trade partner!")
            /\ UNCHANGED progress
       ELSE IF ~HasRecord(a)
       THEN \* this.progress[theirAddress].lastEvent of undefined
            /\ Return("getFreshTestResponse", a, CallOf(NoKeypair, fetch), "throw", TypeError)
            /\ UNCHANGED progress
       ELSE LET freshTest == fetch.data[a]
                lastEvent == progress[a].lastEvent
                timeDiff == formatMillisecondsToHours(getTime(now) - getTime(lastEvent))
            IN IF GreaterThan(timeDiff, freshTestResponseTimeout)
               THEN ReturnMarkedError("getFreshTestResponse", a, CallOf(NoKeypair, fetch),
                                      "Fresh test response timed out")
               ELSE IF Truthy(freshTest, "signature")
               THEN IF verify(freshTest.signature, freshTest.message, freshTest.publicKey)
                    THEN /\ progress' = Assigned(a, BothSigned)
                         /\ Return("getFreshTestResponse", a, CallOf(NoKeypair, fetch), "success",
                                   "Fresh test signed by other party successfully")
                    ELSE ReturnMarkedError("getFreshTestResponse", a, CallOf(NoKeypair, fetch),
                                           "Signature verification failed")
               ELSE ReturnMarkedError("getFreshTestResponse", a, CallOf(NoKeypair, fetch),
                                      "Fresh test signature not found")

\* responses of the mempool (escrow signer) to GetMempoolKey: a transport
\* error, a response with content, or a response without content
MempoolKeys == {"zk1", "zk2"}
MempoolResponses ==
    {[error |-> TRUE, content |-> NoKey]}
    \cup {[error |-> FALSE, content |-> k] : k \in MempoolKeys \cup {NoKey}}

\* what getMempoolKey was called with, what the mempool answers if asked, and
\* the publicKey in the content of the IClientResponse returned
Asked(force, response, publicKey) ==
    CallOf(NoKeypair, [content |-> response.content, data |-> EmptyData,
                       error |-> response.error, fetched |-> FALSE, force |-> force,
                       publicKey |-> publicKey])

\* a bridge that asks the mempool on every call
MustAsk_Always(force) == TRUE

\* if (!this.mempoolKey || force)
MustAsk(force) == mempoolKey = NoKey \/ force

\* HelixBridge.getMempoolKey
getMempoolKey(force, response) ==
    /\ UNCHANGED <<progress, txStage2, mailbox, now, nonce>>
    /\ IF MustAsk(force)
       THEN IF response.error
            THEN /\ Return("getMempoolKey", "", Asked(force, response, NoKey), "error",
                           NetworkError)
                 /\ UNCHANGED mempoolKey
            ELSE IF response.content # NoKey
            THEN /\ mempoolKey' = response.content
                 /\ Return("getMempoolKey", "", Asked(force, response, response.content),
                           "success", "Mempool key retrieved")
            ELSE /\ Return("getMempoolKey", "", Asked(force, response, NoKey), "error",
                           "responseData.reason")
                 /\ UNCHANGED mempoolKey
       ELSE /\ Return("getMempoolKey", "", Asked(force, response, mempoolKey), "success",
                      "Existing mempool key retrieved")
            /\ UNCHANGED mempoolKey

\* HelixBridge.getMempoolSignature
getMempoolSignature(zenottasAddress, fetch) ==
    /\ UNCHANGED <<mempoolKey, txStage2, mailbox, now, nonce>>
    /\ IF fetch.error
       THEN /\ Return("getMempoolSignature", zenottasAddress, CallOf(NoKeypair, fetch), "error", NetworkError)
            /\ UNCHANGED progress
       ELSE IF zenottasAddress \notin DOMAIN fetch.data
       THEN ReturnMarkedError("getMempoolSignature", zenottasAddress, CallOf(NoKeypair, fetch),
                "No signature found from Zenotta third transaction stage")
       ELSE \* return intercomData[zenottasAddress]
            /\ Return("getMempoolSignature", zenottasAddress, CallOf(NoKeypair, fetch), "value", NoReason)
            /\ UNCHANGED progress

\* sum of the outputs' satoshis (outputs.reduce)
RECURSIVE SumSatoshis(_)
SumSatoshis(outputs) ==
    IF outputs = << >> THEN 0
    ELSE Head(outputs).satoshis + SumSatoshis(Tail(outputs))

\* outputs.filter(o => o.script.toString().indexOf(address) != -1)
OutputsPaying(outputs, address) ==
    SelectSeq(outputs, LAMBDA o : IndexOf(o.script, address) # 0 - 1)

\* HelixBridgeBTC.expectationsAreMetBtcTx
expectationsAreMetBtcTx(transaction, expectations) ==
    LET outputs == transaction.outputs
        amount == SumSatoshis(outputs)
        ourAddressFilter == OutputsPaying(outputs, expectations.ourAddress)
        zenottasAddressFilter == OutputsPaying(outputs, expectations.zenottasAddress)
    IN ~ (\/ amount # expectations.amount
          \/ Len(ourAddressFilter) # 1
          \/ Len(zenottasAddressFilter) # 1)

\* the .then/.catch of the post in sendTxStage1 and sendTxStage2Partial: a
\* TypeError thrown by Object.assign in .then is caught by .catch and
\* returned as an Error
SendStage(op, a, kp, transaction, post, status, reason) ==
    /\ UNCHANGED <<mempoolKey, txStage2, now, nonce>>
    /\ mailbox' = IF Delivered(post) THEN Posted(a, kp.address, transaction) ELSE mailbox
    /\ IF post = "ok"
       THEN IF HasRecord(a)
            THEN /\ progress' = Assigned(a, status)
                 /\ Return(op, a, CallOf(kp, NotFetched), "success", reason)
            ELSE /\ progress' = progress
                 /\ Return(op, a, CallOf(kp, NotFetched), "error", TypeError)
       ELSE /\ progress' = progress
            /\ Return(op, a, CallOf(kp, NotFetched), "error", NetworkError)

\* HelixBridgeBTC.sendTxStage1
sendTxStage1(a, kp, transaction, post) ==
    SendStage("sendTxStage1", a, kp, transaction, post, Stage1Sent,
              "Sent first transaction stage")

\* HelixBridgeBTC.sendTxStage2Partial
sendTxStage2Partial(a, kp, txStage2Partial, post) ==
    SendStage("sendTxStage2Partial", a, kp, txStage2Partial, post, Stage2PartialSent,
              "Sent first transaction stage")

\* what getTxStage1 fetched, with the interpreter's answer and the
\* expectations it was judged against
Judged(fetch, scriptAccepted, expectations) ==
    [error |-> fetch.error, data |-> fetch.data, fetched |-> fetch.fetched,
     accepted |-> scriptAccepted, expected |-> expectations]

\* HelixBridgeBTC.getTxStage1; scriptAccepted is the answer of
\* Script.Interpreter().verify(inputScript, outputScript)
getTxStage1(a, expectations, fetch, scriptAccepted) ==
    /\ UNCHANGED <<mempoolKey, txStage2, mailbox, now, nonce>>
    /\ IF fetch.error
       THEN /\ Return("getTxStage1", a, CallOf(NoKeypair, fetch), "error", NetworkError)
            /\ UNCHANGED progress
       ELSE IF a \notin DOMAIN fetch.data
       THEN ReturnMarkedError("getTxStage1", a, CallOf(NoKeypair, fetch), "No data for counter party found")
       ELSE LET transaction == fetch.data[a] IN
            IF \/ "inputs" \notin DOMAIN transaction
               \/ transaction.inputs = << >>
               \/ transaction.outputs = << >>
            THEN \* transaction.inputs[0].script of undefined
                 /\ Return("getTxStage1", a, CallOf(NoKeypair, fetch), "throw", TypeError)
                 /\ UNCHANGED progress
            ELSE LET inputScript == transaction.inputs[1].script
                     outputScript == transaction.outputs[1].script
                 IN IF inputScript = NoScript \/ outputScript = NoScript
                    THEN ReturnMarkedError("getTxStage1", a, CallOf(NoKeypair, fetch),
                                           "No input or output script found")
                    ELSE IF ~scriptAccepted
                    THEN ReturnMarkedError("getTxStage1", a,
                            CallOf(NoKeypair, Judged(fetch, scriptAccepted, expectations)),
                            "Invalid transaction TxA")
                    ELSE IF ~expectationsAreMetBtcTx(transaction, expectations)
                    THEN ReturnMarkedError("getTxStage1", a,
                            CallOf(NoKeypair, Judged(fetch, scriptAccepted, expectations)),
                            "Expectations not met")
                    ELSE IF HasRecord(a)
                    THEN /\ progress' = Assigned(a, Stage1Verified)
                         /\ Return("getTxStage1", a,
                                   CallOf(NoKeypair, Judged(fetch, scriptAccepted, expectations)),
                                   "success", "Received first transaction stage")
                    ELSE /\ progress' = progress
                         /\ Return("getTxStage1", a,
                                   CallOf(NoKeypair, Judged(fetch, scriptAccepted, expectations)),
                                   "throw", TypeError)

\* what getTxStage2Partial fetched, with the signature fragment it looked for
Sought(fetch, ourSig) ==
    [data |-> fetch.data, error |-> fetch.error, fetched |-> fetch.fetched,
     ourSig |-> ourSig]

\* HelixBridgeBTC.getTxStage2Partial
getTxStage2Partial(a, ourSig, fetch) ==
    /\ UNCHANGED <<mempoolKey, mailbox, now, nonce>>
    /\ IF fetch.error
       THEN /\ Return("getTxStage2Partial", a, CallOf(NoKeypair, Sought(fetch, ourSig)), "error", NetworkError)
            /\ UNCHANGED <<progress, txStage2>>
       ELSE IF a \notin DOMAIN fetch.data
       THEN /\ ReturnMarkedError("getTxStage2Partial", a, CallOf(NoKeypair, Sought(fetch, ourSig)),
                                 "No data for counter party found")
            /\ UNCHANGED txStage2
       ELSE LET transaction == fetch.data[a] IN
            IF \/ "inputs" \notin DOMAIN transaction
               \/ transaction.inputs = << >>
               \/ transaction.inputs[1].script = NoScript
            THEN \* transaction.inputs[0].script.toString() of undefined
                 /\ Return("getTxStage2Partial", a, CallOf(NoKeypair, Sought(fetch, ourSig)), "throw", TypeError)
                 /\ UNCHANGED <<progress, txStage2>>
            ELSE LET inputScript == transaction.inputs[1].script IN
                 IF IndexOf(inputScript, ourSig) = 0 - 1
                 THEN /\ ReturnMarkedError("getTxStage2Partial", a, CallOf(NoKeypair, Sought(fetch, ourSig)),
                                           "Invalid transaction TxB partial")
                      /\ UNCHANGED txStage2
                 ELSE IF HasRecord(a)
                 THEN /\ progress' = Assigned(a, Stage3Sent)
                      /\ txStage2' = transaction
                      /\ Return("getTxStage2Partial", a, CallOf(NoKeypair, Sought(fetch, ourSig)), "success",
                                "Received second transaction stage")
                 ELSE /\ UNCHANGED <<progress, txStage2>>
                      /\ Return("getTxStage2Partial", a, CallOf(NoKeypair, Sought(fetch, ourSig)), "throw", TypeError)

\* HelixBridge.sendTxStage3, submitTxStage2, submitTxStage4: an error
\* envelope, nothing else
NotImplementedOps == {"sendTxStage3", "submitTxStage2", "submitTxStage4"}
notImplemented(op) ==
    /\ Return(op, "", NoInputs, "error", "Not implemented")
    /\ UNCHANGED <<progress, mempoolKey, txStage2, mailbox, now, nonce>>

\* time passes between calls
Tick ==
    /\ now < MaxTicks
    /\ now' = now + 1
    /\ last' = [op |-> "tick", addr |-> "", kp |-> NoKeypair, read |-> NotFetched,
                result |-> "none", reason |-> NoReason]
    /\ UNCHANGED <<progress, mempoolKey, txStage2, mailbox, nonce, pending>>

(* --------------------------- specification ----------------------------- *)
AllAddresses == Counterparties \cup {ZenottasAddress}

\* each call below runs from its invocation to its return with no other call
\* in between
SendFreshTest ==
    /\ Idle
    /\ \E a \in Counterparties, kp \in Keypairs, post \in PostOutcomes :
          sendFreshTest(a, kp, post) /\ UNCHANGED pending
SignFreshTestOf(entries) ==
    /\ Idle
    /\ \E a \in Counterparties, kp \in Keypairs, post \in PostOutcomes :
          \E fetch \in Fetches(a, entries) : signFreshTest(a, kp, fetch, post) /\ UNCHANGED pending
GetFreshTestResponseOf(entries) ==
    /\ Idle
    /\ \E a \in Counterparties : \E fetch \in Fetches(a, entries) :
          getFreshTestResponse(a, fetch) /\ UNCHANGED pending
SignFreshTest == SignFreshTestOf(SomeEntriesToSign)
GetFreshTestResponse == GetFreshTestResponseOf(SomeEntriesOfResponse)
GetMempoolKey ==
    /\ Idle
    /\ \E force \in BOOLEAN, response \in MempoolResponses :
          getMempoolKey(force, response) /\ UNCHANGED pending
\* what the mempool leaves in our slot: a signature and the public key that
\* made it
EscrowSignatures == [publicKey : MempoolKeys, signature : {"sigZ1", "sigZ2"}]
AnEscrowSignature == [publicKey |-> "zk1", signature |-> "sigZ1"]
GetMempoolSignatureOf(entries) ==
    /\ Idle
    /\ \E z \in AllAddresses : \E fetch \in Fetches(z, entries) :
          getMempoolSignature(z, fetch) /\ UNCHANGED pending
GetMempoolSignature == GetMempoolSignatureOf({AnEscrowSignature})
SendTxStage1 ==
    /\ Idle
    /\ \E a \in Counterparties, kp \in {K1}, tx \in SentTransactions, post \in PostOutcomes :
          sendTxStage1(a, kp, tx, post) /\ UNCHANGED pending
GetTxStage1 ==
    /\ Idle
    /\ \E a \in Counterparties, e \in Expectations, ok \in BOOLEAN :
          \E fetch \in Fetches(a, EntriesOfStage) :
             getTxStage1(a, e, fetch, ok) /\ UNCHANGED pending
SendTxStage2Partial ==
    /\ Idle
    /\ \E a \in Counterparties, kp \in {K1}, tx \in SentTransactions, post \in PostOutcomes :
          sendTxStage2Partial(a, kp, tx, post) /\ UNCHANGED pending
GetTxStage2Partial ==
    /\ Idle
    /\ \E a \in Counterparties, sig \in OurSigs :
          \E fetch \in Fetches(a, EntriesOfStage) :
             getTxStage2Partial(a, sig, fetch) /\ UNCHANGED pending
NotImplemented ==
    /\ Idle
    /\ \E op \in NotImplementedOps : notImplemented(op) /\ UNCHANGED pending

Next ==
    \/ SendFreshTest
    \/ SignFreshTest
    \/ GetFreshTestResponse
    \/ GetMempoolSignature
    \/ SendTxStage1
    \/ GetTxStage1
    \/ SendTxStage2Partial
    \/ GetTxStage2Partial
    \/ NotImplemented
    \/ Tick
    \/ TakeResult

Spec == Init /\ [][Next]_vars

\* the caller keeps calling: some step of the bridge is always taken again
SpecLive == Init /\ [][Next]_vars /\ WF_vars(Next)

\* the freshness handshake on its own, over every fresh test the slot may hold
NextHandshake ==
    \/ SendFreshTest
    \/ SignFreshTestOf(EntriesToSign)
    \/ GetFreshTestResponseOf(EntriesOfResponse)
    \/ Tick
    \/ TakeResult
SpecHandshake == Init /\ [][NextHandshake]_vars

\* the escrow key cache and the escrow signature, in a trade that has begun
NextEscrow ==
    \/ SendFreshTest
    \/ GetMempoolKey
    \/ GetMempoolSignatureOf(EscrowSignatures)
    \/ TakeResult
SpecEscrow == Init /\ [][NextEscrow]_vars

(* -------------------- bitcoin transaction builder ---------------------- *)
\* './constants' of the bridge: sizes in bytes for the fee estimate and the
\* block time in seconds
INPUT_SIZE == 180
OUTPUT_SIZE == 34
BTC_BLOCKTIME_SECS == 600
\* SATOSHI_PER_BYTE_PAYMENT: the rates the bridge may be configured with
SatoshiPerBytePayments == 0..MaxRate

\* calculateFee returns null
NoFee == Null

\* a fee estimate that counts whole inputs: inputCount * INPUT_SIZE + OUTPUT_SIZE + 10
calculateFee_WholeInputs(satoshisPerByte, inputCount, satoshisToSend, totalAmountAvailable) ==
    LET txSize == inputCount * INPUT_SIZE + OUTPUT_SIZE + 10
        satoshiFee == satoshisPerByte * txSize
    IN IF totalAmountAvailable - satoshisToSend - satoshiFee < 0 THEN NoFee ELSE satoshiFee

\* HelixBridgeBTC.calculateFee
calculateFee(satoshisPerByte, inputCount, satoshisToSend, totalAmountAvailable) ==
    LET txSize == inputCount * INPUT_SIZE + OUTPUT_SIZE + 10 - inputCount
        satoshiFee == satoshisPerByte * txSize
    IN IF totalAmountAvailable - satoshisToSend - satoshiFee < 0 THEN NoFee ELSE satoshiFee

\* !fee: null and 0 are both falsy
Falsy(fee) == fee = NoFee \/ fee = 0

\* a number of days, as a fraction
Days(num, den) == [num |-> num, den |-> den]

\* a lock time that forgets the block height it starts from
getLockTimeFromDays_NoStart(days, startBlockHeight) ==
    (days.num * 24 * 60 * 60) \div (days.den * BTC_BLOCKTIME_SECS)

\* HelixBridgeBTC.getLockTimeFromDays:
\* Math.floor((days * 24 * 60 * 60) / BTC_BLOCKTIME_SECS) + startBlockHeight
getLockTimeFromDays(days, startBlockHeight) ==
    ((days.num * 24 * 60 * 60) \div (days.den * BTC_BLOCKTIME_SECS)) + startBlockHeight

\* HelixBridgeBTC.constructTxStage1Script: the elements added to the Script
constructTxStage1Script(inputs) ==
    LET locktime == getLockTimeFromDays(inputs.daysToLock, inputs.startBlockHeight)
    IN <<"OP_IF", "OP_0", "OP_2", inputs.theirAddress, inputs.zenottasAddress, "OP_2",
         "OP_CHECKMULTISIG", "OP_ELSE", ToString(locktime), "OP_CHECKLOCKTIMEVERIFY",
         "OP_DROP", "OP_DUP", "OP_HASH160", inputs.ourReturnAddress, "OP_EQUALVERIFY",
         "OP_CHECKSIG", "OP_ENDIF">>

\* private keys the caller may hold, and new Address(PublicKey.fromPrivateKey(key))
PrivateKeys == {"skB"}
AddressOf(privateKey) ==
    CASE privateKey = "skB" -> "B"
      [] OTHER -> "nobody"

\* an amount of coins "whole.sats" as the UTXO endpoint writes it
Coins(whole, sats) == [whole |-> whole, sats |-> sats]
\* Math.floor(Number(element.value) * 100000000)
SatoshisOf(value) == value.whole * 100000000 + value.sats

\* an error value
Err(message) == [error |-> TRUE, message |-> message]

RECURSIVE SumOfSatoshis(_)
SumOfSatoshis(utxos) ==
    IF utxos = << >> THEN 0 ELSE Head(utxos).satoshis + SumOfSatoshis(Tail(utxos))

\* HelixBridgeBTC.fetchInputsFromUtxo: response is the endpoint's answer, an
\* error or the address and its unspent outputs
fetchInputsFromUtxo(response) ==
    IF response.error THEN Err(NetworkError)
    ELSE LET inputs == [i \in 1..Len(response.txs) |->
                          [address |-> response.address,
                           satoshis |-> SatoshisOf(response.txs[i]),
                           txId |-> i]]
         IN [error |-> FALSE, inputs |-> inputs,
             totalAmountAvailable |-> SumOfSatoshis(inputs)]

\* Script.buildPublicKeyHashOut(address), the script of transaction.to and
\* transaction.change
PayTo(address) == <<"OP_DUP", "OP_HASH160", address, "OP_EQUALVERIFY", "OP_CHECKSIG">>

\* transaction.sign(privateKey): every input that spends an output of the
\* key's address gets the key's signature, made over the outputs the
\* transaction has at that time (sighash)
Signed(transaction, privateKey) ==
    [transaction EXCEPT !.inputs =
        [i \in 1..Len(transaction.inputs) |->
            IF transaction.inputs[i].output.address = AddressOf(privateKey)
            THEN [transaction.inputs[i] EXCEPT !.script = <<"sig_" \o privateKey>>,
                                               !.sighash = transaction.outputs]
            ELSE transaction.inputs[i]]]

\* HelixBridgeBTC.constructTransaction; SATOSHI_PER_BYTE_PAYMENT is the
\* configured rate, response the UTXO endpoint's answer
constructTransaction(SATOSHI_PER_BYTE_PAYMENT, response, ourPrivateKey, theirAddress, amount) ==
    LET ourAddress == AddressOf(ourPrivateKey)
        utxoFetchResult == fetchInputsFromUtxo(response)
    IN IF utxoFetchResult.error THEN utxoFetchResult
       ELSE IF utxoFetchResult.inputs = << >> THEN Err("No UTXO entries found")
       ELSE LET inputs == utxoFetchResult.inputs
                fee == calculateFee(SATOSHI_PER_BYTE_PAYMENT, Len(inputs), amount,
                                    utxoFetchResult.totalAmountAvailable)
            IN IF Falsy(fee) THEN Err("Not enough funds")
               ELSE LET paid == IF ~Falsy(fee) THEN fee * 20 ELSE 0
                        change == utxoFetchResult.totalAmountAvailable - amount - paid
                        from == [i \in 1..Len(inputs) |->
                                    [output |-> inputs[i], script |-> NoScript,
                                     sighash |-> << >>]]
                        to == << [script |-> PayTo(theirAddress), satoshis |-> amount] >>
                        outputs == IF change > 0
                                   THEN to \o << [script |-> PayTo(ourAddress),
                                                  satoshis |-> change] >>
                                   ELSE to
                    IN Signed([error |-> FALSE, inputs |-> from, outputs |-> outputs,
                               fee |-> paid], ourPrivateKey)

\* HelixBridgeBTC.constructTxStage1
constructTxStage1(SATOSHI_PER_BYTE_PAYMENT, response, inputs, amount, ourPrivateKey) ==
    LET transaction == constructTransaction(SATOSHI_PER_BYTE_PAYMENT, response, ourPrivateKey,
                                            inputs.theirAddress, amount)
    IN IF transaction.error THEN transaction
       ELSE [transaction EXCEPT !.outputs[1].script = constructTxStage1Script(inputs)]

\* the call rejects: an exception left the builder
Thrown == [error |-> TRUE, message |-> "TypeError", thrown |-> TRUE]

\* HelixBridgeBTC.constructTxStage2Partial: a payment to our own address, to
\* which ourSig is applied; applies tells whether the library's
\* applySignature accepts the crypto.Signature or throws
constructTxStage2Partial(SATOSHI_PER_BYTE_PAYMENT, response, ourSig, amount, ourPrivateKey, applies) ==
    LET transaction == constructTransaction(SATOSHI_PER_BYTE_PAYMENT, response, ourPrivateKey,
                                            AddressOf(ourPrivateKey), amount)
    IN IF transaction.error THEN transaction
       ELSE IF ~applies THEN Thrown
       ELSE [transaction EXCEPT !.inputs[1].script = @ \o <<ourSig>>]

\* a builder that keeps what it built in the bridge
Built_Storing(op, args, value) ==
    /\ last' = [op |-> op, addr |-> "", kp |-> NoKeypair, read |-> NotFetched,
                result |-> "value", reason |-> NoReason, args |-> args, value |-> value]
    /\ txStage2' = [txStage2 EXCEPT !.none = ~@]
    /\ UNCHANGED <<progress, mempoolKey, mailbox, now, nonce, pending>>

\* a builder returns value for the arguments args; it touches nothing else
Built(op, args, value) ==
    /\ last' = [op |-> op, addr |-> "", kp |-> NoKeypair, read |-> NotFetched,
                result |-> "value", reason |-> NoReason, args |-> args, value |-> value]
    /\ UNCHANGED <<progress, mempoolKey, txStage2, mailbox, now, nonce, pending>>

\* sequences of at most n elements of S
SeqsUpTo(S, n) == UNION {[1..k -> S] : k \in 0..n}

\* outputs a transaction may carry: the escrow output, payments to us and to
\* Zenotta, and a data output whose text holds our address
OutputScripts == {<<"o1", "Z", "B">>, PayTo("o1"), PayTo("Z"), <<"OP_RETURN", "o1ff">>}
Outputs == [script : OutputScripts, satoshis : {1, 2}]
\* amounts to send and amounts available, around the fees of one input
AmountsToSend == {0, 1, 100}
AmountsAvailable == {0, 222, 223, 224, 323}
\* ITxStage1ScriptInput values
DaysToLock == {Days(n, d) : n \in 0..MaxDays, d \in {1, 100}}
ScriptInputs == [theirAddress : {"o1"}, ourReturnAddress : {"B"}, zenottasAddress : {"Z"},
                 daysToLock : DaysToLock, startBlockHeight : {0, 700}]
\* answers of the UTXO endpoint for an address
UtxoValues == {Coins(0, 500), Coins(0, 5000)}
UtxoResponses(address) ==
    {[error |-> TRUE, address |-> address, txs |-> << >>]}
    \cup {[error |-> FALSE, address |-> address, txs |-> txs] :
             txs \in SeqsUpTo(UtxoValues, MaxUtxos)}
AmountsToPay == {100, 450}
\* the script inputs of the trades built
TradeScriptInputs == {i \in ScriptInputs : i.daysToLock = Days(1, 1) /\ i.startBlockHeight = 700}

CalculateFee ==
    /\ Idle
    /\ \E satoshisPerByte \in 0..MaxRate, inputCount \in 0..MaxUtxos,
          satoshisToSend \in AmountsToSend, totalAmountAvailable \in AmountsAvailable :
          Built("calculateFee",
                [satoshisPerByte |-> satoshisPerByte, inputCount |-> inputCount,
                 satoshisToSend |-> satoshisToSend,
                 totalAmountAvailable |-> totalAmountAvailable],
                calculateFee(satoshisPerByte, inputCount, satoshisToSend, totalAmountAvailable))

ExpectationsAreMetBtcTx ==
    /\ Idle
    /\ \E outputs \in SeqsUpTo(Outputs, MaxOutputs), expectations \in Expectations :
          LET transaction == [inputs |-> << >>, outputs |-> outputs]
          IN Built("expectationsAreMetBtcTx",
                   [transaction |-> transaction, expectations |-> expectations],
                   expectationsAreMetBtcTx(transaction, expectations))

ConstructTxStage1Script ==
    /\ Idle
    /\ \E inputs \in ScriptInputs :
          Built("constructTxStage1Script", [inputs |-> inputs], constructTxStage1Script(inputs))

ConstructTransaction ==
    /\ Idle
    /\ \E rate \in SatoshiPerBytePayments, ourPrivateKey \in PrivateKeys,
          amount \in AmountsToPay :
          \E response \in UtxoResponses(AddressOf(ourPrivateKey)) :
             Built("constructTransaction",
                   [rate |-> rate, response |-> response, ourPrivateKey |-> ourPrivateKey,
                    theirAddress |-> "o1", amount |-> amount],
                   constructTransaction(rate, response, ourPrivateKey, "o1", amount))

ConstructTxStage1 ==
    /\ Idle
    /\ \E rate \in SatoshiPerBytePayments, ourPrivateKey \in PrivateKeys,
          amount \in AmountsToPay, inputs \in TradeScriptInputs :
          \E response \in UtxoResponses(AddressOf(ourPrivateKey)) :
             Built("constructTxStage1",
                   [rate |-> rate, response |-> response, inputs |-> inputs,
                    amount |-> amount, ourPrivateKey |-> ourPrivateKey],
                   constructTxStage1(rate, response, inputs, amount, ourPrivateKey))

FetchInputsFromUtxo ==
    /\ Idle
    /\ \E ourPrivateKey \in PrivateKeys :
          \E response \in UtxoResponses(AddressOf(ourPrivateKey)) :
             Built("fetchInputsFromUtxo",
                   [address |-> AddressOf(ourPrivateKey), response |-> response],
                   fetchInputsFromUtxo(response))

ConstructTxStage2Partial ==
    /\ Idle
    /\ \E rate \in SatoshiPerBytePayments, ourPrivateKey \in PrivateKeys,
          amount \in AmountsToPay, applies \in BOOLEAN :
          \E response \in UtxoResponses(AddressOf(ourPrivateKey)) :
             Built("constructTxStage2Partial",
                   [rate |-> rate, response |-> response, ourSig |-> "sigB",
                    amount |-> amount, ourPrivateKey |-> ourPrivateKey],
                   constructTxStage2Partial(rate, response, "sigB", amount, ourPrivateKey,
                                            applies))

\* the builders, called on a bridge whose trade state varies
BeginTrade ==
    /\ Idle
    /\ sendFreshTest("B", K1, "ok") /\ UNCHANGED pending
CacheMempoolKey ==
    /\ Idle
    /\ getMempoolKey(FALSE, [error |-> FALSE, content |-> "zk1"]) /\ UNCHANGED pending
NextBuilders ==
    \/ BeginTrade
    \/ CacheMempoolKey
    \/ CalculateFee
    \/ ExpectationsAreMetBtcTx
    \/ ConstructTxStage1Script
    \/ ConstructTransaction
    \/ ConstructTxStage1
    \/ FetchInputsFromUtxo
    \/ ConstructTxStage2Partial
    \/ TakeResult
SpecBuilders == Init /\ [][NextBuilders]_vars

(* ------------------------ intercom request bodies ---------------------- *)
\* utils/intercomUtils: the bodies of the get, set and delete requests.  The
\* caller signs its own address; the key is the slot the request is about.

\* generateIntercomGetBody(addressKey, keypair)
generateIntercomGetBody(addressKey, keypair) ==
    [key |-> addressKey,
     publicKey |-> keypair.publicKey.bytes,
     signature |-> createSignature(keypair.secretKey, addressKey)]

\* a set body signed over the slot it is sent to
generateIntercomSetBody_SigningTarget(addressKey, addressField, keypair, value) ==
    [field |-> addressField,
     key |-> addressKey,
     publicKey |-> keypair.publicKey.bytes,
     signature |-> createSignature(keypair.secretKey, addressKey),
     value |-> value]

\* generateIntercomSetBody(addressKey, addressField, keypair, value): post
\* value into the slot of addressKey under the field of our own address
generateIntercomSetBody(addressKey, addressField, keypair, value) ==
    [field |-> addressField,
     key |-> addressKey,
     publicKey |-> keypair.publicKey.bytes,
     signature |-> createSignature(keypair.secretKey, addressField),
     value |-> value]

\* generateIntercomDelBody(addressKey, addressField, keypair): remove from our
\* own slot addressKey the entry that addressField placed
generateIntercomDelBody(addressKey, addressField, keypair) ==
    [field |-> addressField,
     key |-> addressKey,
     publicKey |-> keypair.publicKey.bytes,
     signature |-> createSignature(keypair.secretKey, addressKey)]

\* addresses and values of the requests
IntercomAddresses == {"o1", "B", "C"}
IntercomValues == {"Hello!", "Bye!"}

GenerateIntercomGetBody ==
    /\ last.op = "constructor"
    /\ \E addressKey \in IntercomAddresses, keypair \in Keypairs :
          Built("generateIntercomGetBody", [addressKey |-> addressKey, keypair |-> keypair],
                generateIntercomGetBody(addressKey, keypair))

GenerateIntercomSetBody ==
    /\ last.op = "constructor"
    /\ \E addressKey \in IntercomAddresses, addressField \in IntercomAddresses,
          keypair \in Keypairs, value \in IntercomValues :
          Built("generateIntercomSetBody",
                [addressField |-> addressField, addressKey |-> addressKey,
                 keypair |-> keypair, value |-> value],
                generateIntercomSetBody(addressKey, addressField, keypair, value))

GenerateIntercomDelBody ==
    /\ last.op = "constructor"
    /\ \E addressKey \in IntercomAddresses, addressField \in IntercomAddresses,
          keypair \in Keypairs :
          Built("generateIntercomDelBody",
                [addressField |-> addressField, addressKey |-> addressKey,
                 keypair |-> keypair],
                generateIntercomDelBody(addressKey, addressField, keypair))

(* ------------------------ intercom response data ---------------------- *)
\* a successful result carrying a value
Ok(value) == [error |-> FALSE, value |-> value]

\* a filter that keeps the entries matching at least one of the predicates
filterIntercomDataForPredicates_AnyField(intercomData, predicates) ==
    LET matching == {key \in DOMAIN intercomData :
                        \E field \in DOMAIN predicates :
                           intercomData[key].value[field] = predicates[field]}
    IN IF matching = {} THEN Err("No data found")
       ELSE Ok([key \in matching |-> intercomData[key]])

\* filterIntercomDataForPredicates(intercomData, predicates): the entries
\* whose value holds, under each field of the predicates, the value asked for;
\* an error when there is none
filterIntercomDataForPredicates(intercomData, predicates) ==
    LET matching == {key \in DOMAIN intercomData :
                        \A field \in DOMAIN predicates :
                           /\ field \in DOMAIN intercomData[key].value
                           /\ intercomData[key].value[field] = predicates[field]}
    IN IF matching = {} THEN Err("No data found")
       ELSE Ok([key \in matching |-> intercomData[key]])

\* formatSingleCustomKeyValuePair(subset): the one entry as {key, value}; an
\* error unless exactly one entry remains
formatSingleCustomKeyValuePair(subset) ==
    IF Cardinality(DOMAIN subset) # 1 THEN Err("Not unique")
    ELSE LET key == CHOOSE k \in DOMAIN subset : TRUE
         IN Ok([key |-> key, value |-> subset[key]])

\* throwIfErr(result): the value of a result, an exception on an error
throwIfErr(result) == IF result.error THEN Thrown ELSE result.value

\* formatSingleCustomKeyValuePair(throwIfErr(filterIntercomDataForPredicates(..)))
\* unwrapped, as the callers that look a DRUID up compose them
filterSingle(intercomData, predicates) ==
    LET subset == throwIfErr(filterIntercomDataForPredicates(intercomData, predicates))
    IN IF subset = Thrown THEN Thrown
       ELSE throwIfErr(formatSingleCustomKeyValuePair(subset))

\* responses of the intercom: entries of IPendingRbTxDetails under the
\* addresses of their senders
SenderAddresses == {"sender_address_" \o ToString(i) : i \in 1..MaxSenders}
PendingDetails == [druid : {"unique_druid_value_1", "unique_druid_value_2"},
                   status : {"pending", "accepted"},
                   computeHost : {"computeHost_2"}]
IntercomEntries == [timestamp : {0}, value : PendingDetails]
IntercomResponses == UNION {[keys -> IntercomEntries] : keys \in SUBSET SenderAddresses}
\* predicates over the fields of the details
Predicates ==
    UNION {[fields -> {"unique_druid_value_1", "accepted", "computeHost_2"}] :
              fields \in {{"druid"}, {"status"}, {"status", "computeHost"}}}

FilterIntercomDataForPredicates ==
    /\ last.op = "constructor"
    /\ \E intercomData \in IntercomResponses, predicates \in Predicates :
          Built("filterIntercomDataForPredicates",
                [intercomData |-> intercomData, predicates |-> predicates],
                filterIntercomDataForPredicates(intercomData, predicates))

FormatSingleCustomKeyValuePair ==
    /\ last.op = "constructor"
    /\ \E subset \in IntercomResponses :
          Built("formatSingleCustomKeyValuePair", [subset |-> subset],
                formatSingleCustomKeyValuePair(subset))

FilterSingle ==
    /\ last.op = "constructor"
    /\ \E intercomData \in IntercomResponses, predicates \in Predicates :
          Built("filterSingle", [intercomData |-> intercomData, predicates |-> predicates],
                filterSingle(intercomData, predicates))

(* ------------------------------ asset values --------------------------- *)
\* utils (interface utilities): Token and Receipt assets, their compatibility
\* and the checked operations on their amounts.
DEFAULT_DRS_TX_HASH == "default_drs_tx_hash"
initIAssetToken(amount) == [Token |-> amount]
initIAssetReceipt(amount, drs_tx_hash) ==
    [Receipt |-> [amount |-> amount, drs_tx_hash |-> drs_tx_hash]]
isOfTypeIAssetToken(asset) == "Token" \in DOMAIN asset
isOfTypeIAssetReceipt(asset) == "Receipt" \in DOMAIN asset
AmountOf(asset) == IF isOfTypeIAssetToken(asset) THEN asset.Token ELSE asset.Receipt.amount

\* a compatibility that takes any two receipts to be of the same kind
assetsAreCompatible_AnyReceipts(lhs, rhs) ==
    \/ isOfTypeIAssetToken(lhs) /\ isOfTypeIAssetToken(rhs)
    \/ isOfTypeIAssetReceipt(lhs) /\ isOfTypeIAssetReceipt(rhs)

\* assetsAreCompatible(lhs, rhs): two tokens always; two receipts when they
\* exhibit the same drs_tx_hash; a token and a receipt never
assetsAreCompatible(lhs, rhs) ==
    \/ isOfTypeIAssetToken(lhs) /\ isOfTypeIAssetToken(rhs)
    \/ /\ isOfTypeIAssetReceipt(lhs) /\ isOfTypeIAssetReceipt(rhs)
       /\ lhs.Receipt.drs_tx_hash = rhs.Receipt.drs_tx_hash

\* lhs with another amount
WithAmount(asset, amount) ==
    IF isOfTypeIAssetToken(asset) THEN initIAssetToken(amount)
    ELSE initIAssetReceipt(amount, asset.Receipt.drs_tx_hash)

\* an addition that returns the amount added instead of the sum
addLhsAssetToRhsAsset_Replacing(lhs, rhs) ==
    IF ~assetsAreCompatible(lhs, rhs) THEN Err("Assets are incompatible")
    ELSE Ok(WithAmount(lhs, AmountOf(rhs)))

\* addLhsAssetToRhsAsset(lhs, rhs)
addLhsAssetToRhsAsset(lhs, rhs) ==
    IF ~assetsAreCompatible(lhs, rhs) THEN Err("Assets are incompatible")
    ELSE Ok(WithAmount(lhs, AmountOf(lhs) + AmountOf(rhs)))

\* a subtraction that lets the amount go below zero
subRhsAssetFromLhsAsset_Unchecked(lhs, rhs) ==
    IF ~assetsAreCompatible(lhs, rhs) THEN Err("Assets are incompatible")
    ELSE Ok(WithAmount(lhs, AmountOf(lhs) - AmountOf(rhs)))

\* subRhsAssetFromLhsAsset(lhs, rhs): lhs - rhs, never a negative amount
subRhsAssetFromLhsAsset(lhs, rhs) ==
    IF ~assetsAreCompatible(lhs, rhs) THEN Err("Assets are incompatible")
    ELSE IF AmountOf(lhs) < AmountOf(rhs) THEN Err("Insufficient funds")
    ELSE Ok(WithAmount(lhs, AmountOf(lhs) - AmountOf(rhs)))

\* a comparison of the amounts of any two assets
lhsAssetIsLessThanRhsAsset_Coercing(lhs, rhs) == Ok(AmountOf(lhs) < AmountOf(rhs))

\* lhsAssetIsLessThanRhsAsset, lhsAssetIsGreaterThanRhsAsset and
\* lhsAssetIsEqOrGreaterThanRhsAsset
lhsAssetIsLessThanRhsAsset(lhs, rhs) ==
    IF ~assetsAreCompatible(lhs, rhs) THEN Err("Assets are incompatible")
    ELSE Ok(AmountOf(lhs) < AmountOf(rhs))
lhsAssetIsGreaterThanRhsAsset(lhs, rhs) ==
    IF ~assetsAreCompatible(lhs, rhs) THEN Err("Assets are incompatible")
    ELSE Ok(AmountOf(lhs) > AmountOf(rhs))
lhsAssetIsEqOrGreaterThanRhsAsset(lhs, rhs) ==
    IF ~assetsAreCompatible(lhs, rhs) THEN Err("Assets are incompatible")
    ELSE Ok(AmountOf(lhs) >= AmountOf(rhs))

\* a sum, and the addend taken from it again
addThenSubtract(lhs, rhs) ==
    LET sum == addLhsAssetToRhsAsset(lhs, rhs)
    IN IF sum.error THEN sum ELSE subRhsAssetFromLhsAsset(sum.value, rhs)

\* the value an operation on two assets returns
AssetOps ==
    {"assetsAreCompatible", "addLhsAssetToRhsAsset", "subRhsAssetFromLhsAsset",
     "lhsAssetIsLessThanRhsAsset", "lhsAssetIsGreaterThanRhsAsset",
     "lhsAssetIsEqOrGreaterThanRhsAsset", "addThenSubtract"}
AssetOperation(op, lhs, rhs) ==
    CASE op = "assetsAreCompatible" -> assetsAreCompatible(lhs, rhs)
      [] op = "addLhsAssetToRhsAsset" -> addLhsAssetToRhsAsset(lhs, rhs)
      [] op = "subRhsAssetFromLhsAsset" -> subRhsAssetFromLhsAsset(lhs, rhs)
      [] op = "lhsAssetIsLessThanRhsAsset" -> lhsAssetIsLessThanRhsAsset(lhs, rhs)
      [] op = "lhsAssetIsGreaterThanRhsAsset" -> lhsAssetIsGreaterThanRhsAsset(lhs, rhs)
      [] op = "lhsAssetIsEqOrGreaterThanRhsAsset" -> lhsAssetIsEqOrGreaterThanRhsAsset(lhs, rhs)
      [] op = "addThenSubtract" -> addThenSubtract(lhs, rhs)

\* tokens and receipts of small amounts, receipts of the default and of two
\* other DRS transactions
DrsTxHashes == {DEFAULT_DRS_TX_HASH, "unique_drs_tx_hash", "other_drs_tx_hash"}
Assets ==
    {initIAssetToken(n) : n \in 0..MaxAmount}
    \cup {initIAssetReceipt(n, h) : n \in 0..MaxAmount, h \in DrsTxHashes}

ApplyAssetOperation ==
    /\ last.op = "constructor"
    /\ \E op \in AssetOps, lhs \in Assets, rhs \in Assets :
          Built(op, [lhs |-> lhs, rhs |-> rhs], AssetOperation(op, lhs, rhs))

(* ------------------- receipt-based payments: one half ------------------ *)
\* mgmt/receiptMgmt: the half of a receipt-based payment that one party
\* creates.  A balance is the list of the unspent outputs of our addresses,
\* in the order of the balance response.

\* amount gathered from the first i outputs of the balance: an output of the
\* asset type is taken while the amount is not covered yet
RECURSIVE AmountGathered(_, _, _, _)
AmountGathered(balance, i, amount, assetType) ==
    IF i = 0 THEN 0
    ELSE LET before == AmountGathered(balance, i - 1, amount, assetType)
         IN IF balance[i].assetType = assetType /\ before < amount
            THEN before + balance[i].amount
            ELSE before

\* getInputsForTx(amount, assetType, balance): the outputs selected, in the
\* order of the balance, or an error when the balance does not cover amount
getInputsForTx(amount, assetType, balance) ==
    LET selected == {i \in 1..Len(balance) :
                       /\ balance[i].assetType = assetType
                       /\ AmountGathered(balance, i - 1, amount, assetType) < amount}
        total == AmountGathered(balance, Len(balance), amount, assetType)
        Nth(k) == CHOOSE i \in selected : Cardinality({j \in selected : j < i}) = k - 1
    IN IF total < amount THEN Err("Insufficient funds")
       ELSE [error |-> FALSE,
             inputs |-> [k \in 1..Cardinality(selected) |->
                           [previous_out |-> balance[Nth(k)].out_point,
                            script_signature |->
                               [public_key |-> balance[Nth(k)].address,
                                signable_data |-> <<balance[Nth(k)].assetType,
                                                    balance[Nth(k)].amount>>]]],
             totalAmountGathered |-> total,
             usedAddresses |->
                {balance[i].address : i \in selected}
                \ {balance[i].address : i \in (1..Len(balance)) \ selected}]

\* an output of a transaction of the native ledger
TxOut(address, assetType, amount) ==
    [drs_block_hash |-> Null, drs_tx_hash |-> Null, locktime |-> 0,
     script_public_key |-> address, value |-> (assetType :> amount)]

\* DRUID information that expects the asset to come to them from us
DruidInfo_FromUs(druid, theirFromValue, receiveAmount, receiveAsset, ourReceiveAddress) ==
    [druid |-> druid,
     expectations |-> << [asset |-> (receiveAsset :> receiveAmount),
                          from |-> ourReceiveAddress, to |-> theirFromValue] >>,
     participants |-> 2]

\* druid_info of a half: what must arrive in return, from whom and to whom
DruidInfo(druid, theirFromValue, receiveAmount, receiveAsset, ourReceiveAddress) ==
    [druid |-> druid,
     expectations |-> << [asset |-> (receiveAsset :> receiveAmount),
                          from |-> theirFromValue, to |-> ourReceiveAddress] >>,
     participants |-> 2]

\* a half that always returns the excess, even when there is none
CreateRbTxHalf_AlwaysExcess(balance, theirAddress, druid, theirFromValue, sendAmount, sendAsset, receiveAmount, receiveAsset, ourReceiveAddress, excessAddress) ==
    LET txIns == getInputsForTx(sendAmount, sendAsset, balance)
    IN IF txIns.error THEN txIns
       ELSE [createTx |->
                [druid_info |-> DruidInfo(druid, theirFromValue, receiveAmount,
                                          receiveAsset, ourReceiveAddress),
                 inputs |-> txIns.inputs,
                 outputs |-> << TxOut(theirAddress, sendAsset, sendAmount),
                                TxOut(excessAddress, sendAsset,
                                      txIns.totalAmountGathered - sendAmount) >>],
             error |-> FALSE,
             usedAddresses |-> txIns.usedAddresses]

\* CreateRbTxHalf(balance, theirAddress, druid, theirFromValue, sendAmount,
\* sendAsset, receiveAmount, receiveAsset, ourReceiveAddress, excessAddress)
CreateRbTxHalf(balance, theirAddress, druid, theirFromValue, sendAmount, sendAsset, receiveAmount, receiveAsset, ourReceiveAddress, excessAddress) ==
    LET txIns == getInputsForTx(sendAmount, sendAsset, balance)
    IN IF txIns.error THEN txIns
       ELSE LET excess == txIns.totalAmountGathered - sendAmount
                payment == << TxOut(theirAddress, sendAsset, sendAmount) >>
            IN [createTx |->
                   [druid_info |-> DruidInfo(druid, theirFromValue, receiveAmount,
                                             receiveAsset, ourReceiveAddress),
                    inputs |-> txIns.inputs,
                    outputs |-> IF excess > 0
                                THEN payment \o << TxOut(excessAddress, sendAsset, excess) >>
                                ELSE payment],
                error |-> FALSE,
                usedAddresses |-> txIns.usedAddresses]

\* balances of up to MaxBalanceOutputs outputs of tokens and receipts, and
\* the payments made from them: something is sent and something expected
AssetTypes == {"Token", "Receipt"}
BalanceOutputs ==
    [address : {"our_address_1"}, amount : {1}, assetType : AssetTypes]
    \cup [address : {"our_address_2"}, amount : {2}, assetType : AssetTypes]
Balances ==
    {[i \in 1..Len(outputs) |->
        [address |-> outputs[i].address, amount |-> outputs[i].amount,
         assetType |-> outputs[i].assetType, out_point |-> [n |-> 0, t_hash |-> i]]] :
     outputs \in SeqsUpTo(BalanceOutputs, MaxBalanceOutputs)}

ApplyCreateRbTxHalf ==
    /\ last.op = "constructor"
    /\ \E balance \in Balances, sendAmount \in 1..3, sendAsset \in AssetTypes,
          receiveAsset \in AssetTypes :
          Built("CreateRbTxHalf",
                  [balance |-> balance, druid |-> "full_druid",
                   excessAddress |-> "excess_address",
                   ourReceiveAddress |-> "our_receive_address",
                   receiveAmount |-> 1, receiveAsset |-> receiveAsset,
                   sendAmount |-> sendAmount, sendAsset |-> sendAsset,
                   theirAddress |-> "their_payment_address",
                   theirFromValue |-> "their_from_value"],
                  CreateRbTxHalf(balance, "their_payment_address", "full_druid",
                                 "their_from_value", sendAmount, sendAsset, 1, receiveAsset,
                                 "our_receive_address", "excess_address"))

\* the utilities: the codec of the mailbox protocol, the asset values and the
\* halves of receipt-based payments.  They are functions of their arguments
\* alone; each call is made on a bridge just built
NextUtils ==
    \/ GenerateIntercomGetBody
    \/ GenerateIntercomSetBody
    \/ GenerateIntercomDelBody
    \/ FilterIntercomDataForPredicates
    \/ FormatSingleCustomKeyValuePair
    \/ FilterSingle
    \/ ApplyAssetOperation
    \/ ApplyCreateRbTxHalf
SpecUtils == Init /\ [][NextUtils]_vars

(* ------------------- calls in flight (await points) -------------------- *)
\* Every handler is an async function: it runs up to an await, is suspended
\* while the intercom answers, and its continuation runs when the promise
\* settles.  Continuations of calls for different addresses interleave.
Traders == {"B", "C"}
Callees == Traders \cup {ZenottasAddress}
AsyncOps == {"sendFreshTest", "signFreshTest", "getFreshTestResponse", "sendTxStage1",
             "getMempoolSignature"}

\* the closure of a suspended call: its arguments, the promise it awaits
\* ("fetch": getIntercomData, "post": axios.post), the value it posts and the
\* ourAddress it read before the await
Awaiting(op, kp, await, value, ourAddress) ==
    [op |-> op, kp |-> kp, await |-> await, value |-> value, ourAddress |-> ourAddress]
Suspended(a, call) ==
    pending' = [k \in DOMAIN pending \cup {a} |-> IF k = a THEN call ELSE pending[k]]
Resumed(a) == pending' = [k \in DOMAIN pending \ {a} |-> pending[k]]
ReturnPending(op, a, kp) ==
    last' = [op |-> op, addr |-> a, kp |-> kp, read |-> NotFetched,
             result |-> "pending", reason |-> NoReason]

\* the part of a handler that runs before its first await
Invoke(op, a, kp, transaction) ==
    /\ a \notin DOMAIN pending
    /\ UNCHANGED <<mempoolKey, txStage2, mailbox, now>>
    /\ IF op = "sendFreshTest"
       THEN /\ nonce < MaxNonce
            /\ nonce' = nonce + 1
            /\ Suspended(a, Awaiting(op, kp, "post", FreshTestPayload(a), kp.address))
            /\ ReturnPending(op, a, kp)
            /\ UNCHANGED progress
       ELSE /\ UNCHANGED nonce
            /\ IF op = "signFreshTest"
               THEN IF ~HasRecord(a)
                    THEN /\ Return(op, a, CallOf(kp, NotFetched), "throw", TypeError)
                         /\ UNCHANGED <<progress, pending>>
                    ELSE IF LooseNotEqual(Uint8ArrayFrom(HexBytes(progress[a].ourAddress)),
                                          kp.publicKey)
                    THEN /\ ReturnMarkedError(op, a, CallOf(kp, NotFetched),
                                              "Our address does not match our public key")
                         /\ UNCHANGED pending
                    ELSE /\ Suspended(a, Awaiting(op, kp, "fetch", EmptyData,
                                                  progress[a].ourAddress))
                         /\ ReturnPending(op, a, kp)
                         /\ UNCHANGED progress
               ELSE /\ Suspended(a, Awaiting(op, kp,
                                    IF op = "sendTxStage1" THEN "post" ELSE "fetch",
                                    IF op = "sendTxStage1" THEN transaction ELSE EmptyData,
                                    kp.address))
                    /\ ReturnPending(op, a, kp)
                    /\ UNCHANGED progress

\* HelixBridge.signFreshTest between its two awaits: the intercom answered
signFreshTestFetched(a, call, fetch) ==
    /\ UNCHANGED <<progress, mempoolKey, txStage2, mailbox, now, nonce>>
    /\ IF fetch.error
       THEN /\ Return(call.op, a, CallOf(call.kp, fetch), "error", NetworkError)
            /\ Resumed(a)
       ELSE IF a \notin DOMAIN fetch.data
       THEN /\ Return(call.op, a, CallOf(call.kp, fetch), "error",
                      "Data not found for trade partner!")
            /\ Resumed(a)
       ELSE IF "message" \notin DOMAIN fetch.data[a]
       THEN /\ Return(call.op, a, CallOf(call.kp, fetch), "throw", TypeError)
            /\ Resumed(a)
       ELSE /\ Suspended(a, [call EXCEPT !.await = "post",
                   !.value = [fetch.data[a] EXCEPT
                                 !.signature = sign(call.kp.secretKey, fetch.data[a].message)]])
            /\ ReturnPending(call.op, a, call.kp)

\* HelixBridge.signFreshTest after its second await: the .then / .catch of
\* the post
signFreshTestPosted(a, call, post) ==
    /\ UNCHANGED <<mempoolKey, txStage2, now, nonce>>
    /\ Resumed(a)
    /\ mailbox' = IF Delivered(post) THEN Posted(a, call.ourAddress, call.value) ELSE mailbox
    /\ IF post = "ok" /\ HasRecord(a)
       THEN /\ progress' = Assigned(a, FreshTestSigned)
            /\ Return(call.op, a, CallOf(call.kp, NotFetched), "success", "Fresh test sent")
       ELSE ReturnMarkedError(call.op, a, CallOf(call.kp, NotFetched), NetworkError)

\* what the intercom may answer to the call in flight for a
AnswersTo(a) ==
    Fetches(a, {AStrayTest, [publicKey |-> a, message |-> Uuid(1, 0),
                             signature |-> createSignature(SecretOf(a), 1)]})
OutcomesOfPost == {"ok", "rejected"}

\* the promise a call awaits settles and the handler's continuation runs, up
\* to its next await or its return
Settle(a) ==
    /\ a \in DOMAIN pending
    /\ LET call == pending[a] IN
       IF call.op = "sendFreshTest"
       THEN \E post \in OutcomesOfPost :
               /\ sendFreshTestPosted(a, call.kp, call.value, post)
               /\ UNCHANGED nonce
               /\ Resumed(a)
       ELSE IF call.op = "sendTxStage1"
       THEN \E post \in OutcomesOfPost :
               sendTxStage1(a, call.kp, call.value, post) /\ Resumed(a)
       ELSE IF call.op = "getFreshTestResponse"
       THEN \E fetch \in AnswersTo(a) : getFreshTestResponse(a, fetch) /\ Resumed(a)
       ELSE IF call.op = "getMempoolSignature"
       THEN \E fetch \in AnswersTo(a) : getMempoolSignature(a, fetch) /\ Resumed(a)
       ELSE IF call.await = "fetch"
       THEN \E fetch \in AnswersTo(a) : signFreshTestFetched(a, call, fetch)
       ELSE \E post \in OutcomesOfPost : signFreshTestPosted(a, call, post)

InvokeSome ==
    \E op \in AsyncOps, a \in Callees, tx \in SentTransactions :
       /\ (a \in Traders \/ op = "getMempoolSignature")
       /\ Invoke(op, a, K1, tx)
SettleSome == \E a \in Callees : Settle(a)

\* (the clock stands still: the calls overlap in time)
NextAsync == InvokeSome \/ SettleSome
SpecAsync == Init /\ [][NextAsync]_vars

(* ------------------------------ claims --------------------------------- *)
StatusChangingOps == {"sendFreshTest", "signFreshTest", "getFreshTestResponse",
                      "sendTxStage1", "getTxStage1", "sendTxStage2Partial",
                      "getTxStage2Partial"}

TimedOut == "Fresh test response timed out"
VerificationFailed == "Signature verification failed"
IdentityMismatch == "Our address does not match our public key"

\* hours between the record's lastEvent and now
ElapsedHours(a) == (now - progress[a].lastEvent) * TickHours

\* the call fetched an entry of a from the intercom
ReadEntry(call, a) == call.read.fetched /\ ~call.read.error /\ a \in DOMAIN call.read.data

\* the entry is a fresh test whose signature is the one the owner of
\* publicKey makes over the entry's message
IsSignedUnder(entry, publicKey) ==
    /\ "signature" \in DOMAIN entry
    /\ entry.signature = <<SecretOf(publicKey), entry.message[1]>>

\* C1: once a record is Failed, only a successful sendFreshTest for that
\* counterparty changes its status to a non-Failed value.
C1_FailedIsTerminal ==
    [][\A a \in Counterparties :
          (/\ HasRecord(a)
           /\ progress[a].status = Null
           /\ ~(last'.op = "sendFreshTest" /\ last'.addr = a /\ last'.result = "success"))
          => progress'[a].status = Null]_vars

\* C2: no operation that returns success lowers the numeric status of the
\* counterparty's record (a sendFreshTest that starts the handshake again
\* is left aside).
C2_StatusMonotonicOnSuccess ==
    [][\A a \in Counterparties :
          (/\ HasRecord(a)
           /\ progress[a].status # Null
           /\ last'.addr = a
           /\ last'.op # "sendFreshTest"
           /\ last'.result = "success")
          => progress'[a].status >= progress[a].status]_vars

\* C3: getFreshTestResponse called more than freshTestResponseTimeout hours
\* after the record's lastEvent, with the counterparty's entry fetched, fails
\* with the timed-out error and sets the record to Failed, whatever the
\* entry's signature is.
C3_TimeoutBeforeSignature ==
    [][\A a \in Counterparties :
          (/\ last'.op = "getFreshTestResponse"
           /\ last'.addr = a
           /\ ReadEntry(last', a)
           /\ HasRecord(a)
           /\ ElapsedHours(a) > freshTestResponseTimeout)
          => /\ last'.result = "error"
             /\ last'.reason = TimedOut
             /\ progress'[a].status = Null
             /\ progress'[a].reasonForFailure = TimedOut]_vars

\* a timed-out call that had read a test validly signed by the counterparty
C3_Witness ==
    /\ last.op = "getFreshTestResponse"
    /\ last.result = "error"
    /\ last.reason = TimedOut
    /\ ReadEntry(last, last.addr)
    /\ IsSignedUnder(last.read.data[last.addr], last.addr)
    /\ progress[last.addr].status = Null

\* C4: a getFreshTestResponse call made for a counterparty whose record was
\* failed by the timeout, and not touched since, does not succeed.
C4_TimedOutStaysFailed ==
    [][\A a \in Counterparties :
          (/\ HasRecord(a)
           /\ progress[a].status = Null
           /\ progress[a].reasonForFailure = TimedOut
           /\ last'.op = "getFreshTestResponse"
           /\ last'.addr = a)
          => last'.result # "success"]_vars

\* C5: getFreshTestResponse succeeds for a counterparty only on an entry that
\* names the counterparty's key, is signed under it, and carries the nonce of
\* the test this bridge posted to the counterparty.
C5_FreshnessBoundToChallenge ==
    [][\A a \in Counterparties :
          (/\ last'.op = "getFreshTestResponse"
           /\ last'.addr = a
           /\ last'.result = "success")
          => LET entry == last'.read.data[a]
                 slot == <<a, progress[a].ourAddress>>
             IN /\ entry.publicKey = a
                /\ IsSignedUnder(entry, a)
                /\ (slot \in DOMAIN mailbox /\ "message" \in DOMAIN mailbox[slot])
                      => entry.message = mailbox[slot].message]_vars

\* C6: within the timeout window, an entry whose signature verifies against
\* the entry's message and public key sets BothSigned, refreshes lastEvent and
\* returns success; a signature that does not verify sets Failed with
\* 'Signature verification failed' and returns that error; no other step
\* records BothSigned.
C6_ResponseWithinWindow ==
    [][/\ \A a \in Counterparties :
            (/\ last'.op = "getFreshTestResponse"
             /\ last'.addr = a
             /\ ReadEntry(last', a)
             /\ HasRecord(a)
             /\ ElapsedHours(a) <= freshTestResponseTimeout
             /\ Truthy(last'.read.data[a], "signature"))
            => IF IsSignedUnder(last'.read.data[a], last'.read.data[a].publicKey)
               THEN /\ progress'[a].status = BothSigned
                    /\ progress'[a].lastEvent = now
                    /\ last'.result = "success"
               ELSE /\ progress'[a].status = Null
                    /\ progress'[a].reasonForFailure = VerificationFailed
                    /\ last'.result = "error"
                    /\ last'.reason = VerificationFailed
       /\ \A a \in DOMAIN progress' :
            (/\ progress'[a].status = BothSigned
             /\ (HasRecord(a) => progress[a].status # BothSigned))
            => (/\ last'.op = "getFreshTestResponse"
                /\ last'.addr = a
                /\ last'.result = "success")]_vars

\* BothSigned recorded some time after the test was sent, within the window
C6_Witness ==
    /\ last.op = "getFreshTestResponse"
    /\ last.result = "success"
    /\ progress[last.addr].status = BothSigned
    /\ progress[last.addr].lastEvent = now
    /\ now > 0

\* C7: signFreshTest fails with the identity-mismatch error if and only if
\* the recorded ourAddress does not match the caller's public key.
C7_MismatchIffKeysDiffer ==
    [][\A a \in Counterparties :
          (/\ last'.op = "signFreshTest"
           /\ last'.addr = a
           /\ HasRecord(a))
          => ((last'.result = "error" /\ last'.reason = IdentityMismatch)
              <=> (HexBytes(progress[a].ourAddress) # last'.kp.publicKey.bytes))]_vars

\* C8: every call returns a success or error value; none throws.
C8_NoOperationThrows == last.result # "throw"

\* C9: whenever a step returns an error for a counterparty that has a
\* progress record, the record is Failed afterwards with the returned reason.
C9_EveryFailureRecorded ==
    [][\A a \in Counterparties :
          (/\ HasRecord(a)
           /\ last'.op \in StatusChangingOps
           /\ last'.addr = a
           /\ last'.result = "error")
          => /\ progress'[a].status = Null
             /\ progress'[a].reasonForFailure = last'.reason]_vars

\* C10: after a successful sendFreshTest the record is exactly
\* {FreshTestSent, ourKeypair.address, no reason, lastEvent = now}, whatever
\* it held before, and the test posted under field ourKeypair.address names
\* theirAddress, carries a nonce no earlier test carried, and no signature.
C10_SendFreshTestRecord ==
    [][\A a \in Counterparties :
          (/\ last'.op = "sendFreshTest"
           /\ last'.addr = a
           /\ last'.result = "success")
          => /\ progress'[a] = [status |-> FreshTestSent, lastEvent |-> now,
                                ourAddress |-> last'.kp.address,
                                reasonForFailure |-> NoReason]
             /\ <<a, last'.kp.address>> \in DOMAIN mailbox'
             /\ LET test == mailbox'[<<a, last'.kp.address>>]
                IN /\ DOMAIN test = {"publicKey", "message", "signature"}
                   /\ test.publicKey = a
                   /\ test.signature = NoSignature
                   /\ test.message \in Messages
                   /\ test.message[1] > nonce
                   /\ \A k \in DOMAIN mailbox :
                         "message" \in DOMAIN mailbox[k]
                            => mailbox[k].message # test.message]_vars

\* a second test, sent some time after the first
C10_Witness ==
    /\ last.op = "sendFreshTest"
    /\ last.result = "success"
    /\ nonce > 1
    /\ now > 0
    /\ progress[last.addr].status = FreshTestSent
    /\ progress[last.addr].lastEvent = now
    /\ progress[last.addr].reasonForFailure = NoReason

\* C11: a progress record is never removed: an address that has a record
\* keeps one after every step, successful or failing; a failing step that
\* changes the record leaves it Failed.
C11_RecordsNeverRemoved ==
    [][\A a \in DOMAIN progress :
          /\ a \in DOMAIN progress'
          /\ (last'.result = "error" /\ progress'[a] # progress[a])
                => progress'[a].status = Null]_vars

\* a record that went through a failure of a later stage and is still there
C11_Witness ==
    /\ last.op = "getTxStage1"
    /\ last.result = "error"
    /\ HasRecord(last.addr)
    /\ progress[last.addr].status = Null
    /\ progress[last.addr].reasonForFailure = last.reason

\* C12: a step of a call invoked for one address leaves the record of every
\* other address, and the call in flight for it, exactly as they were: what
\* the calls for an address read and write (their record and their closure)
\* is touched by no call for another address.
C12_CrossCounterpartyIsolation ==
    [][\A a \in Callees :
          last'.addr # a
          => /\ (a \in DOMAIN progress' <=> a \in DOMAIN progress)
             /\ (a \in DOMAIN progress => progress'[a] = progress[a])
             /\ (a \in DOMAIN pending' <=> a \in DOMAIN pending)
             /\ (a \in DOMAIN pending => pending'[a] = pending[a])]_vars

\* a call for B has just failed and marked B's record while a call for C,
\* whose record is at a later stage, is in flight
C12_Witness ==
    /\ last.addr = "B"
    /\ last.result = "error"
    /\ HasRecord("B")
    /\ progress["B"].status = Null
    /\ "C" \in DOMAIN pending
    /\ HasRecord("C")
    /\ progress["C"].status = Stage1Sent

\* C13: getMempoolSignature hands back a signature only when an escrow key
\* was cached by getMempoolKey and the public key that comes with the signature
\* equals it.
C13_EscrowSignatureKeyMatches ==
    [][(/\ last'.op = "getMempoolSignature"
        /\ last'.result \in {"success", "value"})
       => /\ mempoolKey # NoKey
          /\ ReadEntry(last', last'.addr)
          /\ last'.read.data[last'.addr].publicKey = mempoolKey]_vars

\* the checks of getTxStage1 on what a call read: a transaction of a is
\* there, its first input script and first output script exist, the
\* interpreter accepted them and the expectations are met
Stage1ChecksPass(read, a) ==
    /\ ~read.error
    /\ a \in DOMAIN read.data
    /\ LET transaction == read.data[a] IN
       /\ DOMAIN transaction = {"inputs", "outputs"}
       /\ transaction.inputs # << >>
       /\ transaction.outputs # << >>
       /\ transaction.inputs[1].script # NoScript
       /\ transaction.outputs[1].script # NoScript
       /\ "accepted" \in DOMAIN read
       /\ read.accepted
       /\ expectationsAreMetBtcTx(transaction, read.expected)

\* C14: getTxStage1 records Stage1Verified and succeeds only when all its
\* checks pass; when the intercom answered and a check fails, the record
\* becomes Failed with the reason returned; no other step records
\* Stage1Verified.
C14_Stage1VerifiedGated ==
    [][\A a \in Counterparties :
          /\ (/\ last'.op = "getTxStage1"
              /\ last'.addr = a
              /\ last'.result = "success")
             => (Stage1ChecksPass(last'.read, a) /\ progress'[a].status = Stage1Verified)
          /\ (/\ last'.op = "getTxStage1"
              /\ last'.addr = a
              /\ HasRecord(a)
              /\ ~last'.read.error
              /\ ~Stage1ChecksPass(last'.read, a))
             => /\ last'.result = "error"
                /\ progress'[a].status = Null
                /\ progress'[a].reasonForFailure = last'.reason
          /\ (/\ a \in DOMAIN progress'
              /\ progress'[a].status = Stage1Verified
              /\ (HasRecord(a) => progress[a].status # Stage1Verified))
             => (last'.op = "getTxStage1" /\ last'.addr = a /\ last'.result = "success")]_vars

\* C15: a handshake that has begun (FreshTestSent recorded for a
\* counterparty) eventually reaches Complete for it.
C15_HandshakeCompletes ==
    (\E a \in Counterparties : HasRecord(a) /\ progress[a].status = FreshTestSent)
    ~> (\E a \in Counterparties : HasRecord(a) /\ progress[a].status = Complete)

\* an output pays an address when the address is an operand of its script
Pays(output, address) == \E i \in 1..Len(output.script) : output.script[i] = address
NumberPaying(outputs, address) ==
    Cardinality({i \in 1..Len(outputs) : Pays(outputs[i], address)})

\* C16: expectationsAreMetBtcTx returns true exactly when the outputs' amounts
\* sum to expectations.amount, exactly one output pays expectations.ourAddress
\* and exactly one pays expectations.zenottasAddress.
C16_ExpectationsIff ==
    [][last'.op = "expectationsAreMetBtcTx"
       => LET outputs == last'.args.transaction.outputs
              e == last'.args.expectations
          IN last'.value <=> (/\ SumSatoshis(outputs) = e.amount
                              /\ NumberPaying(outputs, e.ourAddress) = 1
                              /\ NumberPaying(outputs, e.zenottasAddress) = 1)]_vars

\* C17: calculateFee returns none when the amount available does not cover
\* the amount to send plus the fee, and the fee otherwise, the fee being
\* satoshisPerByte * (inputCount * INPUT_SIZE + OUTPUT_SIZE + 10 - inputCount).
C17_CalculateFee ==
    [][last'.op = "calculateFee"
       => LET a == last'.args
              fee == a.satoshisPerByte
                       * (a.inputCount * INPUT_SIZE + OUTPUT_SIZE + 10 - a.inputCount)
          IN IF a.totalAmountAvailable - a.satoshisToSend - fee < 0
             THEN last'.value = NoFee
             ELSE last'.value = fee]_vars

\* a fee returned when the funds cover the amount and the fee exactly
C17_Witness ==
    /\ last.op = "calculateFee"
    /\ last.args.satoshisPerByte = 1
    /\ last.args.inputCount = 1
    /\ last.value = 223
    /\ last.args.totalAmountAvailable - last.args.satoshisToSend - last.value = 0

\* satoshis the UTXO endpoint lists in a response
AvailableIn(response) ==
    SumOfSatoshis([i \in 1..Len(response.txs) |-> [satoshis |-> SatoshisOf(response.txs[i])]])

\* C18: with unspent outputs fetched, constructTransaction reports 'Not
\* enough funds' exactly when calculateFee returned none; a fee of zero is
\* not a failure.
C18_ZeroFeeIsNotFailure ==
    [][(/\ last'.op = "constructTransaction"
        /\ ~last'.args.response.error
        /\ last'.args.response.txs # << >>)
       => LET a == last'.args
              fee == calculateFee(a.rate, Len(a.response.txs), a.amount,
                                  AvailableIn(a.response))
          IN (last'.value.error /\ last'.value.message = "Not enough funds")
                <=> (fee = NoFee)]_vars

\* C19: constructTxStage1 returns the transport error, 'No UTXO entries
\* found' or 'Not enough funds', in that order of checks, and otherwise a
\* transaction that spends every fetched output, whose output 0 carries the
\* amount and the escrow script, whose other outputs pay the sender, and whose
\* inputs all carry the sender's signature over the transaction returned.
\* (A fee of exactly zero is the case of C18 and is left aside here.)
C19_ConstructTxStage1 ==
    [][last'.op = "constructTxStage1"
       => LET a == last'.args
              v == last'.value
              txs == a.response.txs
              ourAddress == AddressOf(a.ourPrivateKey)
              fee == calculateFee(a.rate, Len(txs), a.amount, AvailableIn(a.response))
          IN IF a.response.error THEN v.error /\ v.message = NetworkError
             ELSE IF txs = << >> THEN v.error /\ v.message = "No UTXO entries found"
             ELSE IF fee = NoFee THEN v.error /\ v.message = "Not enough funds"
             ELSE IF fee = 0 THEN TRUE
             ELSE /\ ~v.error
                  /\ Len(v.inputs) = Len(txs)
                  /\ \A i \in 1..Len(txs) :
                        /\ v.inputs[i].output.satoshis = SatoshisOf(txs[i])
                        /\ v.inputs[i].output.address = ourAddress
                        /\ v.inputs[i].script = <<"sig_" \o a.ourPrivateKey>>
                        /\ v.inputs[i].sighash = v.outputs
                  /\ v.outputs[1].satoshis = a.amount
                  /\ v.outputs[1].script = constructTxStage1Script(a.inputs)
                  /\ \A j \in 2..Len(v.outputs) : v.outputs[j].script = PayTo(ourAddress)]_vars

\* C20: constructTxStage1Script returns, for equal inputs and whatever the
\* state of the bridge, the elements IF 0 2 theirAddress zenottasAddress 2
\* CHECKMULTISIG ELSE locktime CHECKLOCKTIMEVERIFY DROP DUP HASH160
\* ourReturnAddress EQUALVERIFY CHECKSIG ENDIF, with
\* locktime = floor(daysToLock * 86400 / BTC_BLOCKTIME_SECS) + startBlockHeight.
C20_Stage1ScriptShape ==
    [][last'.op = "constructTxStage1Script"
       => LET i == last'.args.inputs
              locktime == CHOOSE n \in i.startBlockHeight..(i.startBlockHeight + MaxDays * 144) :
                             /\ (n - i.startBlockHeight) * BTC_BLOCKTIME_SECS * i.daysToLock.den
                                   <= i.daysToLock.num * 86400
                             /\ i.daysToLock.num * 86400
                                   < (n - i.startBlockHeight + 1) * BTC_BLOCKTIME_SECS
                                        * i.daysToLock.den
          IN last'.value =
               <<"OP_IF", "OP_0", "OP_2", i.theirAddress, i.zenottasAddress, "OP_2",
                 "OP_CHECKMULTISIG", "OP_ELSE", ToString(locktime),
                 "OP_CHECKLOCKTIMEVERIFY", "OP_DROP", "OP_DUP", "OP_HASH160",
                 i.ourReturnAddress, "OP_EQUALVERIFY", "OP_CHECKSIG", "OP_ENDIF">>]_vars

\* the script of a lock of a hundredth of a day (1.44 blocks) from block 700,
\* built on a bridge that has a trade in progress and a cached escrow key
C20_Witness ==
    /\ last.op = "constructTxStage1Script"
    /\ last.args.inputs.daysToLock = Days(1, 100)
    /\ last.args.inputs.startBlockHeight = 700
    /\ last.value[9] = "701"
    /\ mempoolKey # NoKey
    /\ HasRecord("B")

\* the builders of HelixBridgeBTC
BuilderOps ==
    {"calculateFee", "expectationsAreMetBtcTx", "constructTxStage1Script",
     "fetchInputsFromUtxo", "constructTransaction", "constructTxStage1",
     "constructTxStage2Partial"}

\* C21: a call of a builder, whether it returns a value or an error, leaves
\* the progress map, the cached mempoolKey and the stored stage-2 transaction
\* as they were.
C21_BuildersFrame ==
    [][last'.op \in BuilderOps => UNCHANGED <<progress, mempoolKey, txStage2>>]_vars

\* a stage-2 partial built on a bridge with a trade record and a cached key
C21_Witness ==
    /\ last.op = "constructTxStage2Partial"
    /\ ~last.value.error
    /\ HasRecord("B")
    /\ mempoolKey # NoKey

\* the address the caller of a body generator names as its own: the key of a
\* get and of a delete, the field of a set
OwnAddressOf(call) ==
    IF call.op = "generateIntercomSetBody" THEN call.args.addressField
    ELSE call.args.addressKey

\* C22: the signature of a get body, of a set body and of a delete body is
\* the signature of the caller's own address under the keypair's secret key,
\* whatever the target, the field and the value: the three are identical for
\* one own address and keypair.
C22_MailboxSignature ==
    [][last'.op \in {"generateIntercomGetBody", "generateIntercomSetBody",
                     "generateIntercomDelBody"}
       => last'.value.signature
             = createSignature(last'.args.keypair.secretKey, OwnAddressOf(last'))]_vars

\* a set body sent to another address than our own
C22_Witness ==
    /\ last.op = "generateIntercomSetBody"
    /\ last.args.addressKey = "B"
    /\ last.args.addressField = "o1"
    /\ last.args.keypair = K1
    /\ last.value.signature = <<"sk1", "o1">>

\* the senders whose entry holds the value under each field of the predicates
SendersMatching(intercomData, predicates) ==
    {key \in DOMAIN intercomData :
        \A field \in DOMAIN predicates :
           intercomData[key].value[field] = predicates[field]}

\* C23: filterIntercomDataForPredicates returns exactly the entries matching
\* every (field, value) pair and fails when none does;
\* formatSingleCustomKeyValuePair fails when the subset does not hold exactly
\* one entry; and for a response in which exactly one entry matches
\* {druid: X} their composition returns that entry's key and its stored value.
C23_FilterRoundTrip ==
    [][/\ last'.op = "filterIntercomDataForPredicates"
          => LET data == last'.args.intercomData
                 matching == SendersMatching(data, last'.args.predicates)
             IN IF matching = {} THEN last'.value.error
                ELSE /\ ~last'.value.error
                     /\ DOMAIN last'.value.value = matching
                     /\ \A key \in matching : last'.value.value[key] = data[key]
       /\ last'.op = "formatSingleCustomKeyValuePair"
          => (Cardinality(DOMAIN last'.args.subset) # 1 => last'.value.error)
       /\ (/\ last'.op = "filterSingle"
           /\ DOMAIN last'.args.predicates = {"druid"}
           /\ Cardinality(SendersMatching(last'.args.intercomData,
                                          last'.args.predicates)) = 1)
          => \E key \in DOMAIN last'.args.intercomData :
                /\ last'.args.intercomData[key].value.druid = last'.args.predicates.druid
                /\ last'.value = [key |-> key, value |-> last'.args.intercomData[key]]]_vars

\* the one entry of druid 1 found among three entries
C23_Witness ==
    /\ last.op = "filterSingle"
    /\ Cardinality(DOMAIN last.args.intercomData) = 3
    /\ last.args.predicates = [druid |-> "unique_druid_value_1"]
    /\ last.value # Thrown
    /\ last.value.key = "sender_address_2"
    /\ last.value.value.value.status = "accepted"

\* kind, amount and watermark of an asset value
IsToken(asset) == DOMAIN asset = {"Token"}
IsReceipt(asset) == DOMAIN asset = {"Receipt"}
Watermark(asset) == asset.Receipt.drs_tx_hash
Amount(asset) == IF IsToken(asset) THEN asset.Token ELSE asset.Receipt.amount
SameKind(lhs, rhs) ==
    \/ IsToken(lhs) /\ IsToken(rhs)
    \/ IsReceipt(lhs) /\ IsReceipt(rhs) /\ Watermark(lhs) = Watermark(rhs)

\* C24: add, subtract and the three comparisons fail for a token with a
\* receipt and for two receipts of different watermarks, neither of them the
\* default one; for two receipts of one watermark that is not the default,
\* add and the comparisons succeed.
C24_IncompatibleNeverCombine ==
    [][last'.op \in {"addLhsAssetToRhsAsset", "subRhsAssetFromLhsAsset",
                     "lhsAssetIsLessThanRhsAsset", "lhsAssetIsGreaterThanRhsAsset",
                     "lhsAssetIsEqOrGreaterThanRhsAsset"}
       => LET lhs == last'.args.lhs
              rhs == last'.args.rhs
          IN /\ (IsToken(lhs) /\ IsReceipt(rhs)) \/ (IsReceipt(lhs) /\ IsToken(rhs))
                => last'.value.error
             /\ (/\ IsReceipt(lhs) /\ IsReceipt(rhs)
                 /\ Watermark(lhs) # Watermark(rhs)
                 /\ Watermark(lhs) # DEFAULT_DRS_TX_HASH
                 /\ Watermark(rhs) # DEFAULT_DRS_TX_HASH)
                => last'.value.error
             /\ (/\ IsReceipt(lhs) /\ IsReceipt(rhs)
                 /\ Watermark(lhs) = Watermark(rhs)
                 /\ Watermark(lhs) # DEFAULT_DRS_TX_HASH
                 /\ last'.op # "subRhsAssetFromLhsAsset")
                => ~last'.value.error]_vars

\* a comparison of two receipts of different DRS transactions has failed
C24_Witness ==
    /\ last.op = "lhsAssetIsLessThanRhsAsset"
    /\ IsReceipt(last.args.lhs) /\ IsReceipt(last.args.rhs)
    /\ Watermark(last.args.lhs) = "unique_drs_tx_hash"
    /\ Watermark(last.args.rhs) = "other_drs_tx_hash"
    /\ Amount(last.args.lhs) < Amount(last.args.rhs)
    /\ last.value.error

C26_TokenRoundTrip ==
    [][(/\ last'.op \in {"addLhsAssetToRhsAsset", "addThenSubtract"}
        /\ IsToken(last'.args.lhs) /\ IsToken(last'.args.rhs))
       => /\ ~last'.value.error
          /\ last'.op = "addThenSubtract" => last'.value.value = last'.args.lhs]_vars

\* two tokens taken from the sum of one and two tokens
C26_Witness ==
    /\ last.op = "addThenSubtract"
    /\ last.args.lhs = [Token |-> 1]
    /\ last.args.rhs = [Token |-> 2]
    /\ last.value = [error |-> FALSE, value |-> [Token |-> 1]]

\* C27: for a compatible pair, subtract(a, b) fails when a.amount < b.amount
\* and otherwise returns an asset of a's kind with the amount
\* a.amount - b.amount; no operation returns an asset of a negative amount.
C27_SubtractChecked ==
    [][/\ (last'.op = "subRhsAssetFromLhsAsset"
           /\ SameKind(last'.args.lhs, last'.args.rhs))
          => LET lhs == last'.args.lhs
                 rhs == last'.args.rhs
             IN IF Amount(lhs) < Amount(rhs) THEN last'.value.error
                ELSE /\ ~last'.value.error
                     /\ SameKind(last'.value.value, lhs)
                     /\ Amount(last'.value.value) = Amount(lhs) - Amount(rhs)
       /\ (last'.op \in {"addLhsAssetToRhsAsset", "subRhsAssetFromLhsAsset",
                         "addThenSubtract"}
           /\ ~last'.value.error)
          => Amount(last'.value.value) >= 0]_vars

\* two receipts of one DRS transaction could not be taken from one
C27_Witness ==
    /\ last.op = "subRhsAssetFromLhsAsset"
    /\ IsReceipt(last.args.lhs) /\ IsReceipt(last.args.rhs)
    /\ Watermark(last.args.lhs) = Watermark(last.args.rhs)
    /\ Amount(last.args.lhs) = 1
    /\ Amount(last.args.rhs) = 2
    /\ last.value.error

\* amounts of the outputs of a half and of the outputs its inputs spend
RECURSIVE SumOver(_, _)
SumOver(amounts, n) == IF n = 0 THEN 0 ELSE amounts[n] + SumOver(amounts, n - 1)
AmountOfTxOut(out) == out.value[CHOOSE assetType \in DOMAIN out.value : TRUE]
SpentByInput(input) == input.script_signature.signable_data

\* the amount of the asset type that a balance holds
BalanceOf(balance, assetType) ==
    SumOver([i \in 1..Len(balance) |->
               IF balance[i].assetType = assetType THEN balance[i].amount ELSE 0],
            Len(balance))

C29_OneExpectation ==
    [][(last'.op = "CreateRbTxHalf" /\ ~last'.value.error)
       => LET a == last'.args
              info == last'.value.createTx.druid_info
          IN /\ info.druid = a.druid
             /\ Len(info.expectations) = 1
             /\ info.expectations[1]
                   = [asset |-> (a.receiveAsset :> a.receiveAmount),
                      from |-> a.theirFromValue, to |-> a.ourReceiveAddress]
             /\ info.participants = 2]_vars

\* a half that sends receipts from two inputs and expects a token
C29_Witness ==
    /\ last.op = "CreateRbTxHalf"
    /\ ~last.value.error
    /\ last.args.sendAsset = "Receipt"
    /\ last.args.receiveAsset = "Token"
    /\ Len(last.value.createTx.inputs) = 2
    /\ last.value.createTx.druid_info.expectations[1].asset = [Token |-> 1]

\* C30: a record that is still at FreshTestSent, the handshake not yet
\* signed, never takes a chain-stage status (Stage1Sent or higher) in one
\* step: sendTxStage1 cannot record Stage1Sent for it.
C30_ChainStagesGated ==
    [][\A a \in Counterparties :
          (/\ HasRecord(a)
           /\ progress[a].status = FreshTestSent
           /\ a \in DOMAIN progress')
          => progress'[a].status \notin {Stage1Sent, Stage1Verified, Stage2PartialSent,
                                         Stage3Sent, EscrowSigAwaited, Complete}]_vars

(* --------------------- sending steps and the mailbox ------------------- *)
SendingOps == {"sendTxStage1", "sendTxStage2Partial"}
StatusOfSending(op) == IF op = "sendTxStage1" THEN Stage1Sent ELSE Stage2PartialSent

\* the call just returned recorded its status for its counterparty
RecordedBy(call) ==
    /\ call.addr \in DOMAIN progress
    /\ progress[call.addr].status = StatusOfSending(call.op)
    /\ call.result = "success"

\* C31: a sending step (sendTxStage1, sendTxStage2Partial) records its status
\* (3, 5) and returns success if and only if its post reached the
\* counterparty's mailbox: whenever the call changed the mailbox it recorded
\* the status, and whenever it changed the record the transaction is in the
\* counterparty's slot under our address
C31_PostAndStatusAtomic ==
    [][last'.op \in SendingOps =>
         /\ (mailbox' # mailbox => RecordedBy(last)')
         /\ (progress' # progress \/ last'.result = "success" =>
               /\ RecordedBy(last)'
               /\ <<last'.addr, last'.kp.address>> \in DOMAIN mailbox'
               /\ mailbox'[<<last'.addr, last'.kp.address>>] \in SentTransactions)]_vars

(* ------------------- a built TxA at its recipient ---------------------- *)
\* the IBtcExpectations of the recipient of a TxA built for amount and the
\* script inputs: the recipient is theirAddress of the sender
ExpectationsOfRecipient(inputs, amount) ==
    [ourAddress |-> inputs.theirAddress, zenottasAddress |-> inputs.zenottasAddress,
     amount |-> amount]

\* C32: every transaction constructTxStage1 returns for amount X and script
\* inputs (theirAddress, zenottasAddress), handed unmodified to the recipient,
\* passes the recipient's expectation check for {ourAddress: theirAddress,
\* zenottasAddress, amount: X}, whatever the sender's UTXOs and the change
\* they leave
C32_HonestTxAAccepted ==
    [][(last'.op = "constructTxStage1" /\ ~last'.value.error) =>
          expectationsAreMetBtcTx(last'.value,
              ExpectationsOfRecipient(last'.args.inputs, last'.args.amount))]_vars

(* ----------------------- the fee of a built payment -------------------- *)
\* C33: whenever constructTransaction succeeds, the fee set on the
\* transaction is the fee calculateFee returned for the same inputs, and the
\* amount available covers the amount sent and the fee set:
\* totalAmountAvailable - amount - fee set is not negative
C33_FeeCheckedIsFeePaid ==
    [][(last'.op = "constructTransaction" /\ ~last'.value.error) =>
          LET call == last'.args
              totalAmountAvailable == AvailableIn(call.response)
              fee == calculateFee(call.rate, Len(call.response.txs), call.amount,
                                  totalAmountAvailable)
          IN /\ last'.value.fee = fee
             /\ totalAmountAvailable - call.amount - last'.value.fee >= 0]_vars

(* ------------- stage-2 partials of several counterparties -------------- *)
\* the partial each trader leaves in our slot, and the signature fragment we
\* expect in it
PartialFrom(a) == IF a = "B" THEN TxGood ELSE TxChange
OurSigFor(a) == IF a = "B" THEN "sigB" ELSE "sigC"

\* we open a trade with a trader
BeginTradeWith ==
    /\ Idle
    /\ \E a \in Traders, post \in PostOutcomes : sendFreshTest(a, K1, post) /\ UNCHANGED pending

\* we receive the stage-2 partial of a trader
ReceivePartial ==
    /\ Idle
    /\ \E a \in Traders :
          \E sig \in {OurSigFor(a), "sigX"}, fetch \in Fetches(a, {PartialFrom(a), TxNoInputs, AStrayTest}) :
             getTxStage2Partial(a, sig, fetch) /\ UNCHANGED pending

\* one bridge trading with two counterparties
NextPartials == BeginTradeWith \/ ReceivePartial \/ Tick \/ TakeResult
SpecPartials == Init /\ [][NextPartials]_vars

\* C34: the stage-2 transaction received from a counterparty stays stored
\* when getTxStage2Partial is called for a different counterparty: while
\* txStage2 holds the partial of a, a call for b # a leaves it unchanged
C34_PartialsRetained ==
    [][\A a \in Traders :
          (txStage2 = PartialFrom(a) /\ last'.op = "getTxStage2Partial" /\ last'.addr # a)
             => txStage2' = txStage2]_vars

(* ------------------- receiving the stage-2 partial --------------------- *)
\* the mailbox read of the call holds a transaction of the counterparty whose
\* first input's script contains the signature fragment looked for
CarriesOurSig(call) ==
    /\ ReadEntry(call, call.addr)
    /\ LET transaction == call.read.data[call.addr] IN
       /\ "inputs" \in DOMAIN transaction
       /\ transaction.inputs # << >>
       /\ IndexOf(transaction.inputs[1].script, call.read.ourSig) # 0 - 1

\* C35: getTxStage2Partial stores the fetched transaction as txStage2 and
\* advances the record only if a transaction of the counterparty is in the
\* mailbox and the script of its first input contains ourSig; in every other
\* case the record becomes Failed with a reason and txStage2 keeps its value
C35_PartialAcceptedOnlyWithOurSig ==
    [][last'.op = "getTxStage2Partial" =>
         LET a == last'.addr IN
         /\ (last'.result = "success" \/ txStage2' # txStage2) =>
               /\ CarriesOurSig(last')
               /\ txStage2' = last'.read.data[a]
               /\ a \in DOMAIN progress' /\ progress'[a].status # Null
         /\ ~CarriesOurSig(last') =>
               /\ a \in DOMAIN progress'
               /\ progress'[a].status = Null
               /\ progress'[a].reasonForFailure # NoReason
               /\ txStage2' = txStage2]_vars

(* ---------------------- statuses and their stages ---------------------- *)
\* the call just returned changed the record of a so that it holds status
RecordsStatus(a, status) ==
    /\ a \in DOMAIN progress'
    /\ progress'[a].status = status
    /\ (a \notin DOMAIN progress \/ progress[a] # progress'[a])

\* C36: status Stage3Sent (6, third transaction stage, DDE) is recorded for a
\* counterparty only by the operation that sends the third-stage
\* transaction, and getTxStage2Partial, which receives a stage-2 partial,
\* never records a status above Stage2PartialSent (5)
C36_StatusMatchesStage ==
    [][\A a \in Counterparties :
          /\ RecordsStatus(a, Stage3Sent) => last'.op = "sendTxStage3"
          /\ (last'.op = "getTxStage2Partial" /\ a \in DOMAIN progress'
                /\ (a \notin DOMAIN progress \/ progress[a] # progress'[a]))
               => progress'[a].status <= Stage2PartialSent]_vars

(* ----------------------- failure reason and status --------------------- *)
\* C37: in every reachable state every progress record has a failure reason
\* if and only if its status is Failed (null): a record at a numeric status
\* carries no reason, a Failed record carries one
C37_ReasonIffFailed ==
    \A a \in DOMAIN progress :
       (progress[a].reasonForFailure # NoReason) <=> (progress[a].status = Null)

(* --------------------- polling for the signed test --------------------- *)
\* C38: when getFreshTestResponse reads, within the timeout window, an entry
\* of the counterparty that carries no signature yet, it marks the record
\* Failed with the reason 'Fresh test signature not found' and returns that
\* error; the record does not stay at FreshTestSent
C38_UnsignedResponseFails ==
    [][(/\ last'.op = "getFreshTestResponse"
        /\ HasRecord(last'.addr)
        /\ ReadEntry(last', last'.addr)
        /\ ElapsedHours(last'.addr) <= freshTestResponseTimeout
        /\ ~ (/\ "signature" \in DOMAIN last'.read.data[last'.addr]
              /\ last'.read.data[last'.addr].signature # NoSignature))
       => /\ progress'[last'.addr].status = Null
          /\ progress'[last'.addr].reasonForFailure = "Fresh test signature not found"
          /\ last'.result = "error"
          /\ last'.reason = "Fresh test signature not found"]_vars

\* a record at FreshTestSent was polled in time while the counterparty's
\* entry was still unsigned, and is Failed for it
C38_Witness ==
    /\ last.op = "getFreshTestResponse"
    /\ last.read = [error |-> FALSE, data |-> [x \in {"B"} |-> AStrayTest], fetched |-> TRUE]
    /\ last.reason = "Fresh test signature not found"
    /\ "B" \in DOMAIN progress
    /\ progress["B"].status = Null
    /\ progress["B"].lastEvent = now

(* --------------------------- the escrow key ---------------------------- *)
\* the call just returned asked the mempool for its key
Contacted(call) == call.reason # "Existing mempool key retrieved"

====
